---- MODULE Spec2Model ----
(***************************************************************************)
(* Accord server core: the central arbiter (AccordChannel), and one        *)
(* reader task and one writer task per connection, communicating through   *)
(* bounded FIFO queues (tokio mpsc) and one-shot replies (tokio oneshot).  *)
(* Tasks run on a multi-threaded runtime: every queue send, queue receive  *)
(* and one-shot await is a point where the other tasks may run.            *)
(***************************************************************************)
EXTENDS Integers, Sequences, FiniteSets, TLC

(***************************************************************************)
(* Bounds of the model.                                                    *)
(***************************************************************************)
\* MaxEvents: the packets and socket events the readers read plus the
\* commands typed at the server console, all connections together
MaxEvents == 3
\* the same, where only the login path runs
MaxLoginEvents == 3
\* the same, where only the handshake path of one connection runs
MaxHandshakeEvents == 5
\* the same, where logged-in connections chat
MaxChatEvents == 3
\* the same, where the client of one connection does not read
MaxBackpressureEvents == 3
\* the Pongs that wait in the writer queue of that connection at most
MaxBacklog == 30
\* the same as MaxEvents, where users are kicked
MaxKickEvents == 3
\* the same, where clients fetch the stored messages
MaxFetchEvents == 4
\* the longest text of a packet written as a frame
MaxTextLen == 2
\* the longest username tried
MaxNameLen == 19
\* the packets written to one stream at most
MaxStreamPackets == 2
\* the packets and read errors of the clients that log in and leave
MaxLeaveEvents == 4

(***************************************************************************)
(* Program constants.                                                      *)
(***************************************************************************)
\* mpsc::channel::<ConnectionCommand>(32)
WriterQueueCap == 32
\* mpsc::channel::<ChannelCommand>(32)
ChannelCap == 32
\* verify_username: u.len() > 18 is rejected
MaxUsernameLen == 18
\* FetchMessages: n.min(64)
FetchClamp == 64

(***************************************************************************)
(* Values.                                                                 *)
(***************************************************************************)
\* socket addresses of the accepted connections
Addrs == {1, 2}

None == [some |-> FALSE]
Some(x) == [some |-> TRUE, v |-> x]

\* characters: [ch, alnum: char::is_alphanumeric, ctl: char::is_control,
\* bytes: the length of the UTF-8 encoding]
ChA == [ch |-> "a", alnum |-> TRUE, ctl |-> FALSE, bytes |-> 1]
ChB == [ch |-> "b", alnum |-> TRUE, ctl |-> FALSE, bytes |-> 1]
ChDash == [ch |-> "-", alnum |-> FALSE, ctl |-> FALSE, bytes |-> 1]

\* U+00E9, alphanumeric, two bytes of UTF-8
ChE == [ch |-> "e-acute", alnum |-> TRUE, ctl |-> FALSE, bytes |-> 2]
\* U+0000, a control character
ChNul == [ch |-> "NUL", alnum |-> FALSE, ctl |-> TRUE, bytes |-> 1]

\* strings are sequences of characters
Alice == <<ChA>>
Bob == <<ChB>>
BadName == <<ChDash>>
\* message texts
Hi == <<ChA>>
Empty == <<>>
Texts == {Hi, Empty}
Usernames == {Alice, Bob, BadName}
Passwords == {"pw1", "pw2"}
\* image files: [img, sha: the first four bytes of the SHA-256 of the file
\* as an i32]; two files may share them
Png1 == [img |-> "png1", sha |-> 7]
Png2 == [img |-> "png2", sha |-> 7]
Png3 == [img |-> "png3", sha |-> 0 - 9]
Images == {Png1, Png2, Png3}
Hashes == {i.sha : i \in Images}
\* the 32-byte session secrets a client may choose
Secrets == {"k1", "k2"}
\* RSA PKCS#1 v1.5 under the server's key: the ciphertext of x, and bytes
\* that priv_key.decrypt rejects
Rsa(x) == [rsa |-> TRUE, v |-> x]
Garbage == [rsa |-> FALSE]
\* a fixed phrase of the server, as one token of a string
Phrase(w) == <<[ch |-> w, alnum |-> FALSE, ctl |-> FALSE, bytes |-> 1]>>
\* config.operators
operators == {Alice}

(***************************************************************************)
(* utils.rs                                                                *)
(***************************************************************************)
RECURSIVE ByteLen(_)
ByteLen(s) == IF s = <<>> THEN 0 ELSE Head(s).bytes + ByteLen(Tail(s))

verify_username(u) ==
    ~(ByteLen(u) > MaxUsernameLen \/ u = <<>> \/ \E i \in DOMAIN u : ~u[i].alnum)

\* a check that lets every text through
verify_message_Any(m) == TRUE

verify_message(m) ==
    ~(\E i \in DOMAIN m : m[i].ctl) /\ m # <<>>

\* first 32 bytes of SHA-256(pass || salt), taken as collision free
hash_password(pass, salt) == <<pass, salt>>

(***************************************************************************)
(* State.                                                                  *)
(***************************************************************************)
VARIABLES
    \* AccordChannel (the arbiter)
    chan,               \* receiver: the queue of ChannelCommand
    apc,                \* where channel_loop is: "run", inside the
                        \* EncryptionConfirm handler, or "panicked"
    acur,               \* the EncryptionConfirm being handled
    txs,                \* addr -> Sender<ConnectionCommand> (the queue's addr)
    connected_users,    \* addr -> username
    accounts,           \* accord.accounts: username -> row
    next_user_id,       \* the user_id serial
    salt_generator,     \* position of the salt stream
    tokens_issued,      \* handshake tokens drawn from OsRng so far
    whitelist_on,       \* config.whitelist_on
    allow_new_accounts, \* config.allow_new_accounts
    messages,           \* accord.messages: the rows in insertion order
    images,             \* accord.images: image_hash -> data
    \* ConnectionReaderWrapper, per addr
    rpc,                \* where the reader task is
    rsecret,            \* secret
    rnonce,             \* nonces drawn from nonce_generator
    ruser,              \* user_id and username
    expect_token,       \* expect_token of handle_encryption_request
    rpend,              \* the command awaiting its permission check
    reply,              \* the one-shot channel the reader awaits
    \* ConnectionWriterWrapper, per addr
    wq,                 \* connection_receiver: the queue of ConnectionCommand
    wstate,             \* "run", or "closed" once the receiver is dropped
    wsecret,            \* secret
    wnonce,             \* nonces drawn from nonce_generator
    wire,               \* the frames written to the socket
    \* the environment
    left,               \* the packets, socket events and console commands
                        \* still to come
    now                 \* the system clock, in seconds since the epoch

arbVars == <<chan, apc, acur, txs, connected_users, accounts, next_user_id,
             salt_generator, tokens_issued, whitelist_on, allow_new_accounts,
             messages, images>>
readerVars == <<rpc, rsecret, rnonce, ruser, expect_token, rpend, reply>>
writerVars == <<wq, wstate, wsecret, wnonce, wire>>
envVars == <<left, now>>
vars == <<arbVars, readerVars, writerVars, envVars>>

\* the store and the configuration
dbVars == <<accounts, next_user_id, salt_generator, whitelist_on,
            allow_new_accounts, messages, images>>

(***************************************************************************)
(* Packets and commands.                                                   *)
(***************************************************************************)
Pong == [t |-> "Pong"]
EncryptionAck == [t |-> "EncryptionAck"]
LoginAck == [t |-> "LoginAck"]
EncryptionResponse(token) == [t |-> "EncryptionResponse", token |-> token]
LoginFailed(m) == [t |-> "LoginFailed", reason |-> m]
UserJoinedPkt(u) == [t |-> "UserJoined", username |-> u]
UserLeftPkt(u) == [t |-> "UserLeft", username |-> u]
UsersOnline(us) == [t |-> "UsersOnline", users |-> us]
\* a Message that carries sender_id 0 whoever sends it
MessagePkt_NoId(id, u, text, time) ==
    [t |-> "Message", sender_id |-> 0, sender |-> u, text |-> text,
     time |-> time]
MessagePkt(id, u, text, time) ==
    [t |-> "Message", sender_id |-> id, sender |-> u, text |-> text,
     time |-> time]
ImageMessagePkt(id, u, image_bytes, time) ==
    [t |-> "ImageMessage", sender_id |-> id, sender |-> u,
     image_bytes |-> image_bytes, time |-> time]

\* ConnectionCommand
Write(p) == [t |-> "Write", p |-> p]
SetSecret(s) == [t |-> "SetSecret", s |-> s]
Close == [t |-> "Close"]

\* the packets broadcast to the logged-in connections
BroadcastTypes == {"Message", "ImageMessage", "UserJoined", "UserLeft"}

\* a HashMap is a function to Option values: its keys and its values
Keys(m) == {x \in DOMAIN m : m[x].some}
Values(m) == {m[x].v : x \in Keys(m)}

(***************************************************************************)
(* Queue sends.  Sender::send waits while the queue is full and fails once *)
(* the receiver is dropped.                                                *)
(***************************************************************************)
WOpen(a) == wstate[a] = "run"
HasRoom(a, n) == ~WOpen(a) \/ Len(wq[a]) + n <= WriterQueueCap
\* q with cmd sent to the writer of a
Enq(q, a, cmd) == IF WOpen(a) THEN [q EXCEPT ![a] = Append(@, cmd)] ELSE q
\* q with cmd sent to the writers of every address of S
EnqAll(q, S, cmd) ==
    [a \in Addrs |-> IF a \in S /\ WOpen(a) THEN Append(q[a], cmd) ELSE q[a]]

ArbGone == apc = "panicked"
ChanRoom == ArbGone \/ Len(chan) < ChannelCap

\* the state after AccordChannel::spawn and ConnectionWrapper::spawn, the
\* writer queues apart
StartButQueues ==
    /\ chan = <<>>
    /\ apc = "run"
    /\ acur = None
    /\ txs = [a \in Addrs |-> None]
    /\ connected_users = [a \in Addrs |-> None]
    /\ accounts = [u \in Usernames |-> None]
    /\ next_user_id = 1
    /\ salt_generator = 0
    /\ tokens_issued = 0
    /\ messages = <<>>
    /\ images = [h \in Hashes |-> None]
    /\ now = 1
    /\ rpc = [a \in Addrs |-> "read"]
    /\ rsecret = [a \in Addrs |-> None]
    /\ rnonce = [a \in Addrs |-> 0]
    /\ ruser = [a \in Addrs |-> None]
    /\ expect_token = [a \in Addrs |-> 0]
    /\ rpend = [a \in Addrs |-> None]
    /\ reply = [a \in Addrs |-> None]
    /\ wstate = [a \in Addrs |-> "run"]
    /\ wsecret = [a \in Addrs |-> None]
    /\ wnonce = [a \in Addrs |-> 0]
    /\ wire = [a \in Addrs |-> <<>>]

\* the state after AccordChannel::spawn and ConnectionWrapper::spawn
Start ==
    /\ StartButQueues
    /\ wq = [a \in Addrs |-> <<>>]

\* Config::default()
Init ==
    /\ Start
    /\ whitelist_on = FALSE
    /\ allow_new_accounts = TRUE
    /\ left = MaxEvents

(***************************************************************************)
(* ConnectionWriterWrapper::spawn_loop                                     *)
(***************************************************************************)
\* SetSecret without its assignment: the nonce generator is seeded and the
\* secret is left as it was
SetSecret_wsecret_Keep(a, s) == wsecret

\* SetSecret(s): self.secret = s
SetSecret_wsecret(a, s) == [wsecret EXCEPT ![a] = Some(s)]

\* write_packet: the frame written with the writer's secret and next nonce
Frame(a, p) == [pkt |-> p, key |-> wsecret[a], nonce |-> wnonce[a]]

\* a receiver handing out the newest command of the queue
Recv_Last(a) == wq[a][Len(wq[a])]

\* self.connection_receiver.recv(): the oldest command of the queue
Recv(a) == Head(wq[a])

WriterStep(a) ==
    /\ WOpen(a)
    /\ wq[a] # <<>>
    /\ LET com == Recv(a) IN
       CASE com.t = "Close" ->
              \* break: the receiver is dropped with what it still holds
              /\ wstate' = [wstate EXCEPT ![a] = "closed"]
              /\ wq' = [wq EXCEPT ![a] = <<>>]
              /\ UNCHANGED <<wsecret, wnonce, wire>>
         [] com.t = "SetSecret" ->
              /\ wsecret' = SetSecret_wsecret(a, com.s)
              /\ wnonce' = [wnonce EXCEPT ![a] = 0]
              /\ wq' = [wq EXCEPT ![a] = Tail(@)]
              /\ UNCHANGED <<wstate, wire>>
         [] com.t = "Write" ->
              /\ wire' = [wire EXCEPT ![a] = Append(@, Frame(a, com.p))]
              /\ wnonce' = [wnonce EXCEPT ![a] =
                                IF wsecret[a].some THEN @ + 1 ELSE @]
              /\ wq' = [wq EXCEPT ![a] = Tail(@)]
              /\ UNCHANGED <<wstate, wsecret>>
    /\ UNCHANGED <<arbVars, readerVars, envVars>>

(***************************************************************************)
(* AccordChannel: the store                                                *)
(***************************************************************************)
\* get_user_perms with whitelisted true when the username has no row
get_user_perms_DefaultWhitelisted(username) ==
    IF username \in Usernames /\ accounts[username].some
    THEN [operator |-> username \in operators,
          banned |-> accounts[username].v.banned,
          whitelisted |-> accounts[username].v.whitelisted]
    ELSE [operator |-> FALSE, banned |-> FALSE, whitelisted |-> TRUE]

\* get_user_perms: the defaults when the username has no row
get_user_perms(username) ==
    IF username \in Usernames /\ accounts[username].some
    THEN [operator |-> username \in operators,
          banned |-> accounts[username].v.banned,
          whitelisted |-> accounts[username].v.whitelisted]
    ELSE [operator |-> FALSE, banned |-> FALSE, whitelisted |-> FALSE]

\* get_user
get_user(username) == accounts[username]

\* the row insert_user adds: serial user_id, the flags at their defaults
NewRow(password) ==
    [user_id |-> next_user_id,
     password |-> hash_password(password, salt_generator + 1),
     salt |-> salt_generator + 1,
     banned |-> FALSE, whitelisted |-> FALSE]

Ok(v) == [ok |-> TRUE, v |-> v]
Err(m) == [ok |-> FALSE, reason |-> m]
\* the result of handle_login, and whether insert_user ran
Accept(v, new) == [ok |-> TRUE, v |-> v, new |-> new]
Reject(m) == [ok |-> FALSE, reason |-> m, new |-> FALSE]

\* format!("{}|{}", user_id, username) and the reader's split('|')
ChBar == [ch |-> "|", alnum |-> FALSE, ctl |-> FALSE, bytes |-> 1]
\* a user_id below ten in decimal
Digits(n) ==
    <<[ch |-> "0-9", digit |-> n, alnum |-> TRUE, ctl |-> FALSE, bytes |-> 1]>>
FormatLogin(user_id, username) == Digits(user_id) \o <<ChBar>> \o username
\* the pieces of s between the separators
RECURSIVE Split(_)
Split(s) ==
    IF \A i \in DOMAIN s : s[i] # ChBar THEN <<s>>
    ELSE LET k == CHOOSE i \in DOMAIN s :
                      s[i] = ChBar /\ \A j \in 1..(i - 1) : s[j] # ChBar
         IN <<SubSeq(s, 1, k - 1)>> \o Split(SubSeq(s, k + 1, Len(s)))
ParseLogin(response) ==
    LET parts == Split(response)
    IN [user_id |-> parts[1][1].digit, username |-> parts[2]]

(***************************************************************************)
(* AccordChannel::handle_login                                             *)
(***************************************************************************)
\* handle_login without the connected_users test
LoginResult_NoConnectedTest(username, password) ==
    LET perms == get_user_perms(username) IN
    IF ~verify_username(username) THEN Reject("Invalid username!")
    ELSE IF perms.banned THEN Reject("User banned.")
    ELSE IF whitelist_on /\ ~perms.whitelisted
         THEN Reject("User not on whitelist.")
    ELSE IF get_user(username).some THEN
        LET row == get_user(username).v IN
        IF hash_password(password, row.salt) = row.password
        THEN Accept(FormatLogin(row.user_id, username), FALSE)
        ELSE Reject("Incorrect password.")
    ELSE IF allow_new_accounts
         THEN Accept(FormatLogin(next_user_id, username), TRUE)
         ELSE Reject("Account creation disabled.")

\* handle_login with the connected_users test ahead of the password test
LoginResult_ConnectedFirst(username, password) ==
    LET perms == get_user_perms(username) IN
    IF ~verify_username(username) THEN Reject("Invalid username!")
    ELSE IF perms.banned THEN Reject("User banned.")
    ELSE IF whitelist_on /\ ~perms.whitelisted
         THEN Reject("User not on whitelist.")
    ELSE IF get_user(username).some THEN
        LET row == get_user(username).v IN
        IF username \in Values(connected_users)
        THEN Reject("Already logged in.")
        ELSE IF hash_password(password, row.salt) = row.password
             THEN Accept(FormatLogin(row.user_id, username), FALSE)
             ELSE Reject("Incorrect password.")
    ELSE IF allow_new_accounts
         THEN Accept(FormatLogin(next_user_id, username), TRUE)
         ELSE Reject("Account creation disabled.")

\* handle_login without the allow_new_accounts test
LoginResult_AlwaysNew(username, password) ==
    LET perms == get_user_perms(username) IN
    IF ~verify_username(username) THEN Reject("Invalid username!")
    ELSE IF perms.banned THEN Reject("User banned.")
    ELSE IF whitelist_on /\ ~perms.whitelisted
         THEN Reject("User not on whitelist.")
    ELSE IF get_user(username).some THEN
        LET row == get_user(username).v IN
        IF hash_password(password, row.salt) = row.password
        THEN IF username \in Values(connected_users)
             THEN Reject("Already logged in.")
             ELSE Accept(FormatLogin(row.user_id, username), FALSE)
        ELSE Reject("Incorrect password.")
    ELSE Accept(FormatLogin(next_user_id, username), TRUE)

\* res of handle_login; insert_user returns the row it inserted, so
\* "Failed to create account." is never the result
LoginResult(username, password) ==
    LET perms == get_user_perms(username) IN
    IF ~verify_username(username) THEN Reject("Invalid username!")
    ELSE IF perms.banned THEN Reject("User banned.")
    ELSE IF whitelist_on /\ ~perms.whitelisted
         THEN Reject("User not on whitelist.")
    ELSE IF get_user(username).some THEN
        \* Account exists
        LET row == get_user(username).v IN
        IF hash_password(password, row.salt) = row.password
        THEN IF username \in Values(connected_users)
             THEN Reject("Already logged in.")
             ELSE Accept(FormatLogin(row.user_id, username), FALSE)
        ELSE Reject("Incorrect password.")
    ELSE \* New account
         IF allow_new_accounts
         THEN Accept(FormatLogin(next_user_id, username), TRUE)
         ELSE Reject("Account creation disabled.")

ArbHead(t) == apc = "run" /\ chan # <<>> /\ Head(chan).t = t

\* a panic of the arbiter task drops its receiver and what it holds
ArbPanic ==
    /\ apc' = "panicked"
    /\ chan' = <<>>
    /\ UNCHANGED <<acur, txs, connected_users, tokens_issued, dbVars>>
    /\ UNCHANGED <<readerVars, writerVars, envVars>>

ArbLoginAttempt ==
    /\ ArbHead("LoginAttempt")
    /\ LET p == Head(chan)
           res == LoginResult(p.username, p.password)
       IN /\ IF res.new
             THEN /\ accounts' = [accounts EXCEPT
                                    ![p.username] = Some(NewRow(p.password))]
                  /\ next_user_id' = next_user_id + 1
                  /\ salt_generator' = salt_generator + 1
             ELSE UNCHANGED <<accounts, next_user_id, salt_generator>>
          /\ IF res.ok
             THEN /\ connected_users' =
                         [connected_users EXCEPT ![p.addr] = Some(p.username)]
                  /\ txs' = [txs EXCEPT ![p.addr] = Some(p.tx)]
             ELSE UNCHANGED <<connected_users, txs>>
          /\ reply' = [reply EXCEPT ![p.addr] =
                          Some(IF res.ok THEN Ok(res.v) ELSE Err(res.reason))]
    /\ chan' = Tail(chan)
    /\ UNCHANGED <<apc, acur, tokens_issued, whitelist_on, allow_new_accounts,
                   messages, images>>
    /\ UNCHANGED <<rpc, rsecret, rnonce, ruser, expect_token, rpend>>
    /\ UNCHANGED <<writerVars, envVars>>

(***************************************************************************)
(* AccordChannel::channel_loop                                             *)
(***************************************************************************)
\* the writers a Write(p) is forwarded to: "Only send to logged in users"
LoggedInTxs == {txs[a].v : a \in Keys(txs) \cap Keys(connected_users)}
AllTxs == Values(txs)

\* insert_message skipped
insert_message_Skip(message) == messages

\* insert_message: INSERT INTO accord.messages(sender_id, sender, content,
\* send_time); image_hash is NULL
insert_message(message) ==
    Append(messages,
           [sender_id |-> message.sender_id, sender |-> message.sender,
            content |-> message.text, send_time |-> message.time,
            image_hash |-> None])

\* insert_image_message without its INSERT INTO accord.images
insert_image_Skip(message) == images

\* insert_image_message: INSERT INTO accord.images VALUES (hash, image_bytes)
\* ON CONFLICT DO NOTHING
insert_image(message) ==
    LET hash == message.image_bytes.sha IN
    IF images[hash].some THEN images
    ELSE [images EXCEPT ![hash] = Some(message.image_bytes.img)]

\* insert_image_message that adds no message row when the image is already
\* stored
insert_image_message_Once(message) ==
    IF images[message.image_bytes.sha].some THEN messages
    ELSE Append(messages,
                [sender_id |-> message.sender_id, sender |-> message.sender,
                 content |-> <<>>, send_time |-> message.time,
                 image_hash |-> Some(message.image_bytes.sha)])

\* insert_image_message: INSERT INTO accord.messages (sender_id, sender,
\* content, send_time, image_hash) VALUES (.., '', .., hash)
insert_image_message(message) ==
    Append(messages,
           [sender_id |-> message.sender_id, sender |-> message.sender,
            content |-> <<>>, send_time |-> message.time,
            image_hash |-> Some(message.image_bytes.sha)])

\* the forwarding loop with every packet sent twice
EnqAll_Twice(q, S, cmd) ==
    [a \in Addrs |->
        IF a \in S /\ WOpen(a) THEN Append(Append(q[a], cmd), cmd) ELSE q[a]]

\* the forwarding loop: tx_.send(Write(p.clone())).await.ok() for every
\* writer of S
Forward(q, S, cmd) == EnqAll(q, S, cmd)

\* Write(p): insert_message or insert_image_message, then the forwarding
\* loop
ArbWrite ==
    /\ ArbHead("Write")
    /\ LET p == Head(chan).p IN
       /\ \A a \in LoggedInTxs : HasRoom(a, 1)
       /\ messages' = CASE p.t = "Message" -> insert_message(p)
                        [] p.t = "ImageMessage" -> insert_image_message(p)
                        [] OTHER -> messages
       /\ images' = IF p.t = "ImageMessage" THEN insert_image(p) ELSE images
       /\ wq' = Forward(wq, LoggedInTxs, Write(p))
    /\ chan' = Tail(chan)
    /\ UNCHANGED <<apc, acur, txs, connected_users, tokens_issued, accounts,
                   next_user_id, salt_generator, whitelist_on,
                   allow_new_accounts>>
    /\ UNCHANGED <<readerVars, wstate, wsecret, wnonce, wire, envVars>>

\* EncryptionRequest(tx, otx): the token, EncryptionResponse, the reply
ArbEncryptionRequest ==
    /\ ArbHead("EncryptionRequest")
    /\ LET p == Head(chan)
           token == tokens_issued + 1
       IN /\ HasRoom(p.tx, 1)
          /\ IF WOpen(p.tx)
             THEN /\ wq' = Enq(wq, p.tx, Write(EncryptionResponse(token)))
                  /\ reply' = [reply EXCEPT ![p.addr] = Some(token)]
                  /\ tokens_issued' = token
                  /\ chan' = Tail(chan)
                  /\ UNCHANGED <<apc, acur, txs, connected_users, dbVars>>
                  /\ UNCHANGED <<rpc, rsecret, rnonce, ruser, expect_token,
                                 rpend>>
                  /\ UNCHANGED <<wstate, wsecret, wnonce, wire, envVars>>
             ELSE \* tx.send(..).await.unwrap()
                  ArbPanic

\* the token comparison taken as passed whatever the token
TokenMatches_Any(t, exp_t) == TRUE

\* if t != exp_t .. else
TokenMatches(t, exp_t) == t = exp_t

\* EncryptionConfirm(tx, otx, enc_s, enc_t, exp_t) up to the reply
ArbEncryptionConfirm ==
    /\ ArbHead("EncryptionConfirm")
    /\ LET p == Head(chan) IN
       IF ~p.enc_t.rsa
       THEN \* .expect("Failed to decrypt.")
            ArbPanic
       ELSE IF ~TokenMatches(p.enc_t.v, p.exp_t)
       THEN /\ HasRoom(p.tx, 1)
            /\ wq' = Enq(wq, p.tx, Close)
            /\ reply' = [reply EXCEPT ![p.addr] = Some(Err("handshake"))]
            /\ chan' = Tail(chan)
            /\ UNCHANGED <<apc, acur, txs, connected_users, tokens_issued,
                           dbVars>>
            /\ UNCHANGED <<rpc, rsecret, rnonce, ruser, expect_token, rpend>>
            /\ UNCHANGED <<wstate, wsecret, wnonce, wire, envVars>>
       ELSE IF ~p.enc_s.rsa
       THEN ArbPanic
       ELSE /\ reply' = [reply EXCEPT ![p.addr] = Some(Ok(p.enc_s.v))]
            /\ apc' = "confirm_set"
            /\ acur' = Some([tx |-> p.tx, s |-> p.enc_s.v])
            /\ chan' = Tail(chan)
            /\ UNCHANGED <<txs, connected_users, tokens_issued, dbVars>>
            /\ UNCHANGED <<rpc, rsecret, rnonce, ruser, expect_token, rpend>>
            /\ UNCHANGED <<writerVars, envVars>>

\* a send of the EncryptionConfirm handler after its reply:
\* tx.send(cmd).await.unwrap()
ArbConfirmSend(at, cmd, next) ==
    /\ apc = at
    /\ HasRoom(acur.v.tx, 1)
    /\ IF WOpen(acur.v.tx)
       THEN /\ wq' = Enq(wq, acur.v.tx, cmd)
            /\ apc' = next
            /\ acur' = IF next = "run" THEN None ELSE acur
            /\ UNCHANGED <<chan, txs, connected_users, tokens_issued, dbVars>>
            /\ UNCHANGED <<readerVars, wstate, wsecret, wnonce, wire, envVars>>
       ELSE /\ apc' = "panicked"
            /\ chan' = <<>>
            /\ acur' = None
            /\ UNCHANGED <<txs, connected_users, tokens_issued, dbVars>>
            /\ UNCHANGED <<readerVars, writerVars, envVars>>

ArbConfirmSetSecret ==
    ArbConfirmSend("confirm_set", SetSecret(acur.v.s), "confirm_ack")

ArbConfirmAck ==
    ArbConfirmSend("confirm_ack", Write(EncryptionAck), "run")

\* UserJoined(username): to every writer of txs
ArbUserJoined ==
    /\ ArbHead("UserJoined")
    /\ \A a \in AllTxs : HasRoom(a, 1)
    /\ wq' = EnqAll(wq, AllTxs, Write(UserJoinedPkt(Head(chan).username)))
    /\ chan' = Tail(chan)
    /\ UNCHANGED <<apc, acur, txs, connected_users, tokens_issued, dbVars>>
    /\ UNCHANGED <<readerVars, wstate, wsecret, wnonce, wire, envVars>>

\* UserLeft without self.connected_users.remove(&addr)
UserLeft_connected_users_Keep(addr) == connected_users

\* UserLeft(addr): self.txs.remove(&addr)
UserLeft_txs(addr) == [txs EXCEPT ![addr] = None]
\* UserLeft(addr): self.connected_users.remove(&addr)
UserLeft_connected_users(addr) == [connected_users EXCEPT ![addr] = None]

ArbUserLeft ==
    /\ ArbHead("UserLeft")
    /\ LET addr == Head(chan).addr
           rest == Values(UserLeft_txs(addr))
       IN /\ txs' = UserLeft_txs(addr)
          /\ connected_users' = UserLeft_connected_users(addr)
          /\ IF connected_users[addr].some
             THEN /\ \A a \in rest : HasRoom(a, 1)
                  /\ wq' = EnqAll(wq, rest,
                                  Write(UserLeftPkt(connected_users[addr].v)))
             ELSE UNCHANGED wq
    /\ chan' = Tail(chan)
    /\ UNCHANGED <<apc, acur, tokens_issued, dbVars>>
    /\ UNCHANGED <<readerVars, wstate, wsecret, wnonce, wire, envVars>>

\* UsersQuery(addr)
ArbUsersQuery ==
    /\ ArbHead("UsersQuery")
    /\ LET addr == Head(chan).addr IN
       IF ~txs[addr].some
       THEN \* panic!("Wrong reply addr: {}.", addr)
            ArbPanic
       ELSE /\ HasRoom(txs[addr].v, 1)
            /\ IF WOpen(txs[addr].v)
               THEN /\ wq' = Enq(wq, txs[addr].v,
                                 Write(UsersOnline(Values(connected_users))))
                    /\ chan' = Tail(chan)
                    /\ UNCHANGED <<apc, acur, txs, connected_users,
                                   tokens_issued, dbVars>>
                    /\ UNCHANGED <<readerVars, wstate, wsecret, wnonce, wire,
                                   envVars>>
               ELSE ArbPanic

\* CheckPermissions(username, otx)
ArbCheckPermissions ==
    /\ ArbHead("CheckPermissions")
    /\ reply' = [reply EXCEPT ![Head(chan).addr] =
                    Some(get_user_perms(Head(chan).username))]
    /\ chan' = Tail(chan)
    /\ UNCHANGED <<apc, acur, txs, connected_users, tokens_issued, dbVars>>
    /\ UNCHANGED <<rpc, rsecret, rnonce, ruser, expect_token, rpend>>
    /\ UNCHANGED <<writerVars, envVars>>

\* the orders in which ORDER BY send_time DESC may return the rows of
\* accord.messages, as sequences of row numbers: rows of one second come in
\* any order
DescOrders ==
    LET N == Len(messages) IN
    {f \in [1..N -> 1..N] :
        /\ \A i, j \in 1..N : i # j => f[i] # f[j]
        /\ \A i, j \in 1..N :
              i < j => messages[f[i]].send_time >= messages[f[j]].send_time}

\* fetch_messages(offset, count) when the rows come in the order ord:
\* OFFSET offset ROWS FETCH FIRST count ROW ONLY
fetch_messages(ord, offset, count) ==
    LET N == Len(messages)
        hi == IF offset + count < N THEN offset + count ELSE N
    IN [i \in 1..(IF hi > offset THEN hi - offset ELSE 0) |->
           messages[ord[offset + i]]]

\* fetch_image(hash): SELECT data FROM accord.images WHERE image_hash = hash
fetch_image(hash) == [img |-> images[hash].v, sha |-> hash]

\* the packet made of a row: an ImageMessage when image_hash is not null
PacketOfRow(r) ==
    IF r.image_hash.some
    THEN ImageMessagePkt(r.sender_id, r.sender, fetch_image(r.image_hash.v),
                         r.send_time)
    ELSE MessagePkt(r.sender_id, r.sender, r.content, r.send_time)

\* FetchMessages(o, n, otx): the query fails on a negative OFFSET or FETCH
\* FIRST, and fetch_messages unwraps its result
ArbFetchMessages ==
    /\ ArbHead("FetchMessages")
    /\ LET o == Head(chan).o
           n == IF Head(chan).n < FetchClamp THEN Head(chan).n ELSE FetchClamp
       IN IF o < 0 \/ n < 0
          THEN /\ ArbPanic
               /\ UNCHANGED <<readerVars, writerVars, envVars>>
          ELSE /\ \E ord \in DescOrders :
                     LET rows == fetch_messages(ord, o, n) IN
                     reply' = [reply EXCEPT ![Head(chan).addr] =
                                  Some([i \in DOMAIN rows |->
                                           PacketOfRow(rows[i])])]
               /\ chan' = Tail(chan)
               /\ UNCHANGED <<apc, acur, txs, connected_users, tokens_issued,
                              dbVars>>
               /\ UNCHANGED <<rpc, rsecret, rnonce, ruser, expect_token, rpend>>
               /\ UNCHANGED <<writerVars, envVars>>

\* kick_user: the addresses logged in as username
KickTargets(username) ==
    {a \in Keys(connected_users) : connected_users[a].v = username}
\* kick_user cannot send: txs.get(addr).unwrap() or send(Close).await.unwrap()
KickPanics(username) ==
    \E a \in KickTargets(username) : ~txs[a].some \/ ~WOpen(txs[a].v)
KickQueues(username) == {txs[a].v : a \in KickTargets(username)}

\* KickUser(username)
ArbKickUser ==
    /\ ArbHead("KickUser")
    /\ LET username == Head(chan).username IN
       IF KickPanics(username)
       THEN ArbPanic
       ELSE /\ \A a \in KickQueues(username) : HasRoom(a, 1)
            /\ wq' = EnqAll(wq, KickQueues(username), Close)
            /\ chan' = Tail(chan)
            /\ UNCHANGED <<apc, acur, txs, connected_users, tokens_issued,
                           dbVars>>
            /\ UNCHANGED <<readerVars, wstate, wsecret, wnonce, wire, envVars>>

\* UPDATE accord.accounts SET <flag> = switch WHERE username = ..
SetFlag(username, flag, switch) ==
    IF username \in Usernames /\ accounts[username].some
    THEN [accounts EXCEPT ![username] =
              Some([accounts[username].v EXCEPT ![flag] = switch])]
    ELSE accounts

\* BanUser(username, switch): kick_user when banning, then ban_user
ArbBanUser ==
    /\ ArbHead("BanUser")
    /\ LET username == Head(chan).username
           switch == Head(chan).switch
       IN IF switch /\ KickPanics(username)
          THEN ArbPanic
          ELSE /\ switch => \A a \in KickQueues(username) : HasRoom(a, 1)
               /\ wq' = IF switch
                        THEN EnqAll(wq, KickQueues(username), Close)
                        ELSE wq
               /\ accounts' = SetFlag(username, "banned", switch)
               /\ chan' = Tail(chan)
               /\ UNCHANGED <<apc, acur, txs, connected_users, tokens_issued,
                              next_user_id, salt_generator, whitelist_on,
                              allow_new_accounts, messages, images>>
               /\ UNCHANGED <<readerVars, wstate, wsecret, wnonce, wire,
                              envVars>>

\* WhitelistUser(username, switch)
ArbWhitelistUser ==
    /\ ArbHead("WhitelistUser")
    /\ accounts' = SetFlag(Head(chan).username, "whitelisted", Head(chan).switch)
    /\ chan' = Tail(chan)
    /\ UNCHANGED <<apc, acur, txs, connected_users, tokens_issued,
                   next_user_id, salt_generator, whitelist_on,
                   allow_new_accounts, messages, images>>
    /\ UNCHANGED <<readerVars, writerVars, envVars>>

\* SetWhitelist(state)
ArbSetWhitelist ==
    /\ ArbHead("SetWhitelist")
    /\ whitelist_on' = Head(chan).state
    /\ chan' = Tail(chan)
    /\ UNCHANGED <<apc, acur, txs, connected_users, tokens_issued, accounts,
                   next_user_id, salt_generator, allow_new_accounts, messages,
                   images>>
    /\ UNCHANGED <<readerVars, writerVars, envVars>>

\* SetAllowNewAccounts(state)
ArbSetAllowNewAccounts ==
    /\ ArbHead("SetAllowNewAccounts")
    /\ allow_new_accounts' = Head(chan).state
    /\ chan' = Tail(chan)
    /\ UNCHANGED <<apc, acur, txs, connected_users, tokens_issued, accounts,
                   next_user_id, salt_generator, whitelist_on, messages,
                   images>>
    /\ UNCHANGED <<readerVars, writerVars, envVars>>

(***************************************************************************)
(* The clients: what a reader may find on its socket.                      *)
(***************************************************************************)
\* the tokens the client of a has been sent
KnownTokens(a) ==
    {wire[a][i].pkt.token :
        i \in {j \in DOMAIN wire[a] : wire[a][j].pkt.t = "EncryptionResponse"}}
\* the (enc_secret, enc_token) pairs a client may send; 0 is no token issued
ConfirmPairs(a) ==
    {<<Rsa(s), Rsa(tk)>> : s \in Secrets, tk \in KnownTokens(a) \cup {0}}
        \cup {<<Garbage, Rsa(tk)>> : tk \in KnownTokens(a)}
        \cup {<<Rsa("k1"), Garbage>>}

(***************************************************************************)
(* ConnectionReaderWrapper                                                 *)
(***************************************************************************)
ReaderPanic(a) == rpc' = [rpc EXCEPT ![a] = "panicked"]

\* read_packet returns a packet: one nonce is drawn when a secret is set
ReadPacket(a, at) ==
    /\ rpc[a] = at
    /\ left > 0
    /\ left' = left - 1
    /\ UNCHANGED now
    /\ rnonce' = [rnonce EXCEPT ![a] = IF rsecret[a].some THEN @ + 1 ELSE @]

\* channel_sender.send(cmd).await.unwrap(), the reader going on at next
ToChan(a, cmd, next) ==
    /\ ChanRoom
    /\ IF ArbGone
       THEN ReaderPanic(a) /\ UNCHANGED chan
       ELSE chan' = Append(chan, cmd) /\ rpc' = [rpc EXCEPT ![a] = next]

\* connection_sender.send(cmds).await.unwrap(), the reader going on at next
ToWriter(a, cmds, next) ==
    /\ HasRoom(a, Len(cmds))
    /\ IF WOpen(a)
       THEN wq' = [wq EXCEPT ![a] = @ \o cmds] /\ rpc' = [rpc EXCEPT ![a] = next]
       ELSE ReaderPanic(a) /\ UNCHANGED wq

\* Ping => Write(Pong)
ReaderPing(a) ==
    /\ ReadPacket(a, "read")
    /\ ToWriter(a, <<Write(Pong)>>, "read")
    /\ UNCHANGED <<arbVars, rsecret, ruser, expect_token, rpend, reply>>
    /\ UNCHANGED <<wstate, wsecret, wnonce, wire>>

\* Login { username, password }: handle_login up to the await of the reply
ReaderLogin(a, un, password) ==
    /\ ReadPacket(a, "read")
    /\ IF ruser[a].some
       THEN UNCHANGED <<chan, rpc>>
       ELSE ToChan(a, [t |-> "LoginAttempt", username |-> un,
                       password |-> password, addr |-> a, tx |-> a],
                   "login_wait")
    /\ UNCHANGED <<apc, acur, txs, connected_users, tokens_issued, dbVars>>
    /\ UNCHANGED <<rsecret, ruser, expect_token, rpend, reply, writerVars>>

\* handle_login from the reply on
ReaderLoginReply(a) ==
    /\ rpc[a] = "login_wait"
    /\ reply[a].some
    /\ reply' = [reply EXCEPT ![a] = None]
    /\ IF reply[a].v.ok
       THEN /\ ruser' = [ruser EXCEPT ![a] = Some(ParseLogin(reply[a].v.v))]
            /\ HasRoom(a, 1) /\ ChanRoom
            /\ IF ~WOpen(a)
               THEN ReaderPanic(a) /\ UNCHANGED <<wq, chan>>
               ELSE /\ wq' = Enq(wq, a, Write(LoginAck))
                    /\ ToChan(a, [t |-> "UserJoined",
                                  username |-> ParseLogin(reply[a].v.v).username],
                              "read")
       ELSE /\ ToWriter(a, <<Write(LoginFailed(reply[a].v.reason)), Close>>,
                        "read")
            /\ UNCHANGED <<ruser, chan>>
    /\ UNCHANGED <<apc, acur, txs, connected_users, tokens_issued, dbVars>>
    /\ UNCHANGED <<rsecret, rnonce, expect_token, rpend>>
    /\ UNCHANGED <<wstate, wsecret, wnonce, wire, envVars>>

\* EncryptionRequest: handle_encryption_request up to the await of the token
ReaderEncryptionRequest(a) ==
    /\ ReadPacket(a, "read")
    /\ ToChan(a, [t |-> "EncryptionRequest", addr |-> a, tx |-> a],
              "enc_req_wait")
    /\ UNCHANGED <<apc, acur, txs, connected_users, tokens_issued, dbVars>>
    /\ UNCHANGED <<rsecret, ruser, expect_token, rpend, reply, writerVars>>

\* let expect_token = orx.await.unwrap()
ReaderToken(a) ==
    /\ rpc[a] = "enc_req_wait"
    /\ reply[a].some
    /\ expect_token' = [expect_token EXCEPT ![a] = reply[a].v]
    /\ reply' = [reply EXCEPT ![a] = None]
    /\ rpc' = [rpc EXCEPT ![a] = "enc_confirm_read"]
    /\ UNCHANGED <<arbVars, rsecret, rnonce, ruser, rpend, writerVars, envVars>>

\* Ok(Some(EncryptionConfirm(s, t)))
ReaderConfirm(a, s, t) ==
    /\ ReadPacket(a, "enc_confirm_read")
    /\ ToChan(a, [t |-> "EncryptionConfirm", addr |-> a, tx |-> a,
                  enc_s |-> s, enc_t |-> t, exp_t |-> expect_token[a]],
              "enc_confirm_wait")
    /\ UNCHANGED <<apc, acur, txs, connected_users, tokens_issued, dbVars>>
    /\ UNCHANGED <<rsecret, ruser, expect_token, rpend, reply, writerVars>>

\* Ok(_) and Err(_): another packet, or a read error, during the handshake
ReaderConfirmWrong(a) ==
    /\ ReadPacket(a, "enc_confirm_read")
    /\ HasRoom(a, 1)
    /\ wq' = Enq(wq, a, Close)
    /\ rpc' = [rpc EXCEPT ![a] = "read"]
    /\ UNCHANGED <<arbVars, rsecret, ruser, expect_token, rpend, reply>>
    /\ UNCHANGED <<wstate, wsecret, wnonce, wire>>

\* self.secret = Some(s.clone())
Install_rsecret(a, s) == [rsecret EXCEPT ![a] = Some(s)]

\* "Get decrypted secret back from channel"
ReaderConfirmReply(a) ==
    /\ rpc[a] = "enc_confirm_wait"
    /\ reply[a].some
    /\ reply' = [reply EXCEPT ![a] = None]
    /\ rpc' = [rpc EXCEPT ![a] = "read"]
    /\ IF reply[a].v.ok
       THEN /\ rsecret' = Install_rsecret(a, reply[a].v.v)
            /\ rnonce' = [rnonce EXCEPT ![a] = 0]
            /\ UNCHANGED wq
       ELSE /\ HasRoom(a, 1)
            /\ wq' = Enq(wq, a, Close)
            /\ UNCHANGED <<rsecret, rnonce>>
    /\ UNCHANGED <<arbVars, ruser, expect_token, rpend>>
    /\ UNCHANGED <<wstate, wsecret, wnonce, wire, envVars>>

\* Message(m), logged in
ReaderMessage(a, m) ==
    /\ ReadPacket(a, "read")
    /\ ruser[a].some
    /\ IF verify_message(m)
       THEN ToChan(a, [t |-> "Write",
                       p |-> MessagePkt(ruser[a].v.user_id,
                                        ruser[a].v.username, m, now)],
                   "read")
       ELSE UNCHANGED <<chan, rpc>>
    /\ UNCHANGED <<apc, acur, txs, connected_users, tokens_issued, dbVars>>
    /\ UNCHANGED <<rsecret, ruser, expect_token, rpend, reply, writerVars>>

\* ImageMessage(im), logged in
ReaderImageMessage(a, im) ==
    /\ ReadPacket(a, "read")
    /\ ruser[a].some
    /\ ToChan(a, [t |-> "Write",
                  p |-> ImageMessagePkt(ruser[a].v.user_id,
                                        ruser[a].v.username, im, now)],
              "read")
    /\ UNCHANGED <<apc, acur, txs, connected_users, tokens_issued, dbVars>>
    /\ UNCHANGED <<rsecret, ruser, expect_token, rpend, reply, writerVars>>

\* Command("list"), logged in
ReaderCommandList(a) ==
    /\ ReadPacket(a, "read")
    /\ ruser[a].some
    /\ ToChan(a, [t |-> "UsersQuery", addr |-> a], "read")
    /\ UNCHANGED <<apc, acur, txs, connected_users, tokens_issued, dbVars>>
    /\ UNCHANGED <<rsecret, ruser, expect_token, rpend, reply, writerVars>>

\* the reply of the server sent to the other connection
respond_Other(a, message) ==
    LET b == CHOOSE x \in Addrs : x # a IN
    /\ HasRoom(b, 1)
    /\ wq' = Enq(wq, b, Write([t |-> "Message", sender_id |-> 0,
                               sender |-> Phrase("#SERVER#"),
                               text |-> message, time |-> now]))
    /\ rpc' = [rpc EXCEPT ![a] = "read"]

\* the packet of respond(message)
ServerMessage(text) == MessagePkt(0, Phrase("#SERVER#"), text, now)

\* respond(message): connection_sender.send(Write(p)).await.unwrap()
respond(a, message) == ToWriter(a, <<Write(ServerMessage(message))>>, "read")

\* channel_sender.send(cmd).await.unwrap(), then respond(message)
SendThenRespond(a, cmd, message) ==
    /\ ChanRoom
    /\ IF ArbGone
       THEN ReaderPanic(a) /\ UNCHANGED <<chan, wq>>
       ELSE chan' = Append(chan, cmd) /\ respond(a, message)

\* get_perms(self.username) of a command with a target, up to the await;
\* cmd is what an operator's command sends to the arbiter
GetPerms(a, cmd) ==
    /\ ReadPacket(a, "read")
    /\ ruser[a].some
    /\ ToChan(a, [t |-> "CheckPermissions", addr |-> a,
                  username |-> ruser[a].v.username],
              "perm_wait")
    /\ rpend' = [rpend EXCEPT ![a] = Some(cmd)]
    /\ UNCHANGED <<apc, acur, txs, connected_users, tokens_issued, dbVars>>
    /\ UNCHANGED <<rsecret, ruser, expect_token, reply, writerVars>>

\* Command("kick <target>"), logged in
ReaderCommandKick(a, target) ==
    GetPerms(a, [t |-> "KickUser", username |-> target])

\* Command("ban <target>") and Command("unban <target>"): ban_command
ReaderCommandBan(a, target, switch) ==
    GetPerms(a, [t |-> "BanUser", username |-> target, switch |-> switch])

\* Command("whitelist <target>") and Command("unwhitelist <target>"):
\* whitelist_command
ReaderCommandWhitelist(a, target, switch) ==
    GetPerms(a, [t |-> "WhitelistUser", username |-> target,
                 switch |-> switch])

\* format!("{} kicked.", target), format!("{} {}banned.", target, prefix),
\* format!("{} {}whitelisted.", target, prefix)
Confirmation(cmd) ==
    cmd.username \o
    CASE cmd.t = "KickUser" -> Phrase(" kicked.")
      [] cmd.t = "BanUser" ->
           IF cmd.switch THEN Phrase(" banned.") ELSE Phrase(" unbanned.")
      [] cmd.t = "WhitelistUser" ->
           IF cmd.switch THEN Phrase(" whitelisted.")
           ELSE Phrase(" unwhitelisted.")

\* "kick", ban_command and whitelist_command from the permissions on;
\* Err(_) of get_perms when the arbiter dropped the one-shot sender
ReaderPermsReply(a) ==
    /\ rpc[a] = "perm_wait"
    /\ reply[a].some \/ ArbGone
    /\ reply' = [reply EXCEPT ![a] = None]
    /\ rpend' = [rpend EXCEPT ![a] = None]
    /\ HasRoom(a, 1)
    /\ IF ~reply[a].some
       THEN respond(a, Phrase("Error.")) /\ UNCHANGED chan
       ELSE IF reply[a].v.operator
       THEN SendThenRespond(a, rpend[a].v, Confirmation(rpend[a].v))
       ELSE respond(a, Phrase("Not permitted.")) /\ UNCHANGED chan
    /\ UNCHANGED <<apc, acur, txs, connected_users, tokens_issued, dbVars>>
    /\ UNCHANGED <<rsecret, rnonce, ruser, expect_token>>
    /\ UNCHANGED <<wstate, wsecret, wnonce, wire, envVars>>

\* Command("set_whitelist on|off"), logged in
ReaderCommandSetWhitelist(a, state) ==
    /\ ReadPacket(a, "read")
    /\ ruser[a].some
    /\ HasRoom(a, 1)
    /\ SendThenRespond(a, [t |-> "SetWhitelist", state |-> state],
                       IF state THEN Phrase("Whitelist on.")
                       ELSE Phrase("Whitelist off."))
    /\ UNCHANGED <<apc, acur, txs, connected_users, tokens_issued, dbVars>>
    /\ UNCHANGED <<rsecret, ruser, expect_token, rpend, reply>>
    /\ UNCHANGED <<wstate, wsecret, wnonce, wire>>

\* Command("set_allow_new_accounts on|off"), logged in
ReaderCommandSetAllowNewAccounts(a, state) ==
    /\ ReadPacket(a, "read")
    /\ ruser[a].some
    /\ HasRoom(a, 1)
    /\ SendThenRespond(a, [t |-> "SetAllowNewAccounts", state |-> state],
                       IF state THEN Phrase("Allow new accounts on.")
                       ELSE Phrase("Allow new accounts off."))
    /\ UNCHANGED <<apc, acur, txs, connected_users, tokens_issued, dbVars>>
    /\ UNCHANGED <<rsecret, ruser, expect_token, rpend, reply>>
    /\ UNCHANGED <<wstate, wsecret, wnonce, wire>>

\* the replies to the commands that send nothing to the arbiter: an unknown
\* verb c, a missing target, a missing or invalid argument
PlainReplies ==
    {Phrase("Unknown command: ") \o Hi, Phrase("No target provided"),
     Phrase("No argument provided"), Phrase("Invalid argument: ") \o Hi}

\* Command(c) answered by respond alone, logged in
ReaderCommandOther(a, message) ==
    /\ ReadPacket(a, "read")
    /\ ruser[a].some
    /\ respond(a, message)
    /\ UNCHANGED <<arbVars, rsecret, ruser, expect_token, rpend, reply>>
    /\ UNCHANGED <<wstate, wsecret, wnonce, wire>>

\* the (offset, count) pairs of the FetchMessages packets
FetchArgs == {<<0, 2>>, <<1, 1>>, <<0 - 1, 2>>, <<0, 0 - 1>>}

\* FetchMessages(o, n), logged in: up to the await of the reply
ReaderFetchMessages(a, o, n) ==
    /\ ReadPacket(a, "read")
    /\ ruser[a].some
    /\ ToChan(a, [t |-> "FetchMessages", o |-> o, n |-> n, addr |-> a],
              "fetch_wait")
    /\ UNCHANGED <<apc, acur, txs, connected_users, tokens_issued, dbVars>>
    /\ UNCHANGED <<rsecret, ruser, expect_token, rpend, reply, writerVars>>

\* messages.drain(..).rev()
rev(ms) == [i \in 1..Len(ms) |-> ms[Len(ms) + 1 - i]]

\* FetchMessages from the reply on: the packets to send, in their order
ReaderFetchReply(a) ==
    /\ rpc[a] = "fetch_wait"
    /\ reply[a].some
    /\ reply' = [reply EXCEPT ![a] = None]
    /\ LET ms == rev(reply[a].v) IN
       IF ms = <<>>
       THEN rpc' = [rpc EXCEPT ![a] = "read"] /\ UNCHANGED rpend
       ELSE /\ rpc' = [rpc EXCEPT ![a] = "fetch_send"]
            /\ rpend' = [rpend EXCEPT ![a] = Some(ms)]
    /\ UNCHANGED <<arbVars, rsecret, rnonce, ruser, expect_token>>
    /\ UNCHANGED <<writerVars, envVars>>

\* the loop of FetchMessages, one turn:
\* connection_sender.send(Write(m)).await.unwrap()
ReaderFetchSend(a) ==
    /\ rpc[a] = "fetch_send"
    /\ HasRoom(a, 1)
    /\ IF ~WOpen(a)
       THEN /\ ReaderPanic(a)
            /\ rpend' = [rpend EXCEPT ![a] = None]
            /\ UNCHANGED wq
       ELSE /\ wq' = Enq(wq, a, Write(Head(rpend[a].v)))
            /\ IF Len(rpend[a].v) = 1
               THEN /\ rpend' = [rpend EXCEPT ![a] = None]
                    /\ rpc' = [rpc EXCEPT ![a] = "read"]
               ELSE /\ rpend' = [rpend EXCEPT ![a] = Some(Tail(rpend[a].v))]
                    /\ UNCHANGED rpc
    /\ UNCHANGED <<arbVars, rsecret, rnonce, ruser, expect_token, reply>>
    /\ UNCHANGED <<wstate, wsecret, wnonce, wire, envVars>>

\* EncryptionConfirm outside the handshake, logged in:
\* unreachable!("{:?} should have been handled!", p)
ReaderUnreachable(a) ==
    /\ ReadPacket(a, "read")
    /\ ruser[a].some
    /\ ReaderPanic(a)
    /\ UNCHANGED <<arbVars, rsecret, ruser, expect_token, rpend, reply,
                   writerVars>>

\* "Someone tried to do something without being logged in"
ReaderNotLoggedIn(a) ==
    /\ ReadPacket(a, "read")
    /\ ~ruser[a].some
    /\ UNCHANGED <<arbVars, rpc, rsecret, ruser, expect_token, rpend, reply,
                   writerVars>>

\* spawn_loop, Err(e): UserLeft to the arbiter, Close to the writer, break
ReaderErr(a) ==
    /\ ReadPacket(a, "read")
    /\ ToChan(a, [t |-> "UserLeft", addr |-> a], "stopped")
    /\ HasRoom(a, 1)
    /\ wq' = IF ArbGone THEN wq ELSE Enq(wq, a, Close)
    /\ UNCHANGED <<apc, acur, txs, connected_users, tokens_issued, dbVars>>
    /\ UNCHANGED <<rsecret, ruser, expect_token, rpend, reply>>
    /\ UNCHANGED <<wstate, wsecret, wnonce, wire>>

\* spawn_loop, Err(e), after the writer has dropped its half of the socket:
\* the client sees the connection closed and closes its side; the Close
\* sent to the writer fails, which is ignored
ReaderEof(a) ==
    /\ rpc[a] = "read"
    /\ ~WOpen(a)
    /\ ToChan(a, [t |-> "UserLeft", addr |-> a], "stopped")
    /\ UNCHANGED <<apc, acur, txs, connected_users, tokens_issued, dbVars>>
    /\ UNCHANGED <<rsecret, rnonce, ruser, expect_token, rpend, reply>>
    /\ UNCHANGED <<writerVars, envVars>>

\* decrypt_frame on a frame whose tag does not verify:
\* cipher.decrypt(nonce.into(), packet_bytes).unwrap()
ReaderBadTag(a) ==
    /\ rpc[a] \in {"read", "enc_confirm_read"}
    /\ rsecret[a].some
    /\ ReadPacket(a, rpc[a])
    /\ ReaderPanic(a)
    /\ UNCHANGED <<arbVars, rsecret, ruser, expect_token, rpend, reply,
                   writerVars>>

\* orx.await.unwrap() when the arbiter dropped the one-shot sender
ReaderReplyLost(a) ==
    /\ rpc[a] \in {"login_wait", "enc_req_wait", "enc_confirm_wait",
                  "fetch_wait"}
    /\ ~reply[a].some
    /\ ArbGone
    /\ ReaderPanic(a)
    /\ UNCHANGED <<arbVars, rsecret, rnonce, ruser, expect_token, rpend, reply,
                   writerVars, envVars>>

(***************************************************************************)
(* The console of the server (tui.rs): the operator's commands.            *)
(***************************************************************************)
ConsoleCommands ==
    {[t |-> "KickUser", username |-> u] : u \in {Alice, Bob}}
        \cup {[t |-> "BanUser", username |-> u, switch |-> b] :
                 u \in {Alice, Bob}, b \in BOOLEAN}
        \cup {[t |-> "WhitelistUser", username |-> u, switch |-> b] :
                 u \in {Alice, Bob}, b \in BOOLEAN}
        \cup {[t |-> "SetWhitelist", state |-> b] : b \in BOOLEAN}
        \cup {[t |-> "SetAllowNewAccounts", state |-> b] : b \in BOOLEAN}

Console(cmd) ==
    /\ left > 0
    /\ ~ArbGone
    /\ Len(chan) < ChannelCap
    /\ chan' = Append(chan, cmd)
    /\ left' = left - 1
    /\ UNCHANGED now
    /\ UNCHANGED <<apc, acur, txs, connected_users, tokens_issued, dbVars>>
    /\ UNCHANGED <<readerVars, writerVars>>

\* the system clock advances by a second
Tick ==
    /\ left > 0
    /\ left' = left - 1
    /\ now' = now + 1
    /\ UNCHANGED <<arbVars, readerVars, writerVars>>

(***************************************************************************)
(* The system.                                                             *)
(***************************************************************************)
Arbiter ==
    \/ ArbWrite
    \/ ArbEncryptionRequest
    \/ ArbEncryptionConfirm
    \/ ArbConfirmSetSecret
    \/ ArbConfirmAck
    \/ ArbLoginAttempt
    \/ ArbUserJoined
    \/ ArbUserLeft
    \/ ArbUsersQuery
    \/ ArbCheckPermissions
    \/ ArbFetchMessages
    \/ ArbKickUser
    \/ ArbBanUser
    \/ ArbWhitelistUser
    \/ ArbSetWhitelist
    \/ ArbSetAllowNewAccounts

Reader(a) ==
    \/ ReaderPing(a)
    \/ \E un \in Usernames, pw \in Passwords : ReaderLogin(a, un, pw)
    \/ ReaderLoginReply(a)
    \/ ReaderEncryptionRequest(a)
    \/ ReaderToken(a)
    \/ \E c \in ConfirmPairs(a) : ReaderConfirm(a, c[1], c[2])
    \/ ReaderConfirmWrong(a)
    \/ ReaderConfirmReply(a)
    \/ \E m \in Texts : ReaderMessage(a, m)
    \/ \E im \in Images : ReaderImageMessage(a, im)
    \/ ReaderCommandList(a)
    \/ \E target \in {Alice, Bob} : ReaderCommandKick(a, target)
    \/ \E target \in {Alice, Bob}, switch \in BOOLEAN :
          ReaderCommandBan(a, target, switch)
    \/ \E target \in {Alice, Bob}, switch \in BOOLEAN :
          ReaderCommandWhitelist(a, target, switch)
    \/ ReaderPermsReply(a)
    \/ \E state \in BOOLEAN : ReaderCommandSetWhitelist(a, state)
    \/ \E state \in BOOLEAN : ReaderCommandSetAllowNewAccounts(a, state)
    \/ \E message \in PlainReplies : ReaderCommandOther(a, message)
    \/ \E f \in FetchArgs : ReaderFetchMessages(a, f[1], f[2])
    \/ ReaderFetchReply(a)
    \/ ReaderFetchSend(a)
    \/ ReaderUnreachable(a)
    \/ ReaderNotLoggedIn(a)
    \/ ReaderErr(a)
    \/ ReaderBadTag(a)
    \/ ReaderReplyLost(a)

Next ==
    \/ Arbiter
    \/ \E a \in Addrs : Reader(a)
    \/ \E a \in Addrs : WriterStep(a)
    \/ \E cmd \in ConsoleCommands : Console(cmd)
    \/ Tick

Spec == Init /\ [][Next]_vars

(***************************************************************************)
(* The login path alone: Login packets, read errors, the arbiter's login,  *)
(* join, leave, kick, ban and whitelist handlers, the console, the         *)
(* writers; any configuration load_config may return.                      *)
(***************************************************************************)
\* the (username, password) pairs tried
LoginInputs ==
    {<<Alice, "pw1">>, <<Alice, "pw2">>, <<Bob, "pw1">>, <<BadName, "pw1">>}
\* the console commands typed
LoginConsoleCommands ==
    {c \in ConsoleCommands :
        c.t \in {"KickUser", "BanUser", "WhitelistUser"} /\ c.username = Alice}

InitLogin ==
    /\ Start
    /\ whitelist_on \in BOOLEAN
    /\ allow_new_accounts \in BOOLEAN
    /\ left = MaxLoginEvents

NextLogin ==
    \/ ArbLoginAttempt
    \/ ArbUserJoined
    \/ ArbUserLeft
    \/ ArbKickUser
    \/ ArbBanUser
    \/ ArbWhitelistUser
    \/ \E a \in Addrs :
          \/ \E l \in LoginInputs : ReaderLogin(a, l[1], l[2])
          \/ ReaderLoginReply(a)
          \/ ReaderErr(a)
          \/ WriterStep(a)
    \/ \E cmd \in LoginConsoleCommands : Console(cmd)

SpecLogin == InitLogin /\ [][NextLogin]_vars

(***************************************************************************)
(* The handshake path alone: Ping, EncryptionRequest, EncryptionConfirm,   *)
(* frames whose tag does not verify and read errors on the connections,    *)
(* the arbiter's handshake and leave handlers, the writers.                *)
(***************************************************************************)
InitHandshake ==
    /\ Start
    /\ whitelist_on = FALSE
    /\ allow_new_accounts = TRUE
    /\ left = MaxHandshakeEvents

NextHandshake ==
    \/ ArbEncryptionRequest
    \/ ArbEncryptionConfirm
    \/ ArbConfirmSetSecret
    \/ ArbConfirmAck
    \/ ArbUserLeft
    \/ \E a \in Addrs :
          \/ ReaderPing(a)
          \/ ReaderEncryptionRequest(a)
          \/ ReaderToken(a)
          \/ \E c \in ConfirmPairs(a) : ReaderConfirm(a, c[1], c[2])
          \/ ReaderConfirmWrong(a)
          \/ ReaderConfirmReply(a)
          \/ ReaderErr(a)
          \/ ReaderBadTag(a)
          \/ ReaderReplyLost(a)
          \/ WriterStep(a)

SpecHandshake == InitHandshake /\ [][NextHandshake]_vars

(***************************************************************************)
(* Chat: the operator's client on connection 1 and another user's on       *)
(* connection 2: logins, Message and ImageMessage packets, commands        *)
(* answered by the server, read errors, the arbiter's handlers for them,   *)
(* the writers, the clock.                                                 *)
(***************************************************************************)
ChatLogins == {<<Alice, "pw1">>, <<Bob, "pw1">>}
\* the user of the client of connection a
ChatUser(a) == IF a = 1 THEN Alice ELSE Bob
\* the image files sent: two with the same hash
ChatImages == {Png1, Png2}

InitChat ==
    /\ Start
    /\ whitelist_on = FALSE
    /\ allow_new_accounts = TRUE
    /\ left = MaxChatEvents

NextChat ==
    \/ ArbLoginAttempt
    \/ ArbUserJoined
    \/ ArbUserLeft
    \/ ArbWrite
    \/ ArbUsersQuery
    \/ ArbCheckPermissions
    \/ ArbKickUser
    \/ \E a \in Addrs :
          \/ ReaderLogin(a, ChatUser(a), "pw1")
          \/ ReaderLoginReply(a)
          \/ \E m \in Texts : ReaderMessage(a, m)
          \/ \E im \in ChatImages : ReaderImageMessage(a, im)
          \/ ReaderCommandList(a)
          \/ ReaderCommandKick(a, Alice)
          \/ ReaderPermsReply(a)
          \/ ReaderCommandOther(a, Phrase("Unknown command: ") \o Hi)
          \/ ReaderErr(a)
          \/ WriterStep(a)
    \/ Tick

SpecChat == InitChat /\ [][NextChat]_vars

(***************************************************************************)
(* Backpressure: the client of connection 1 has sent Pings and does not    *)
(* read, so the Pongs wait in the queue of its writer; it logs in and      *)
(* pings on; the client of connection 2 logs in and sends messages.        *)
(***************************************************************************)
InitBackpressure ==
    /\ StartButQueues
    /\ \E n \in 0..MaxBacklog :
          wq = [a \in Addrs |->
                  IF a = 1 THEN [i \in 1..n |-> Write(Pong)] ELSE <<>>]
    /\ whitelist_on = FALSE
    /\ allow_new_accounts = TRUE
    /\ left = MaxBackpressureEvents

NextBackpressure ==
    \/ ArbLoginAttempt
    \/ ArbUserJoined
    \/ ArbWrite
    \/ ReaderLogin(1, Alice, "pw1")
    \/ ReaderPing(1)
    \/ ReaderLogin(2, Bob, "pw1")
    \/ ReaderMessage(2, Hi)
    \/ \E a \in Addrs : ReaderLoginReply(a)
    \/ \E a \in Addrs : WriterStep(a)

SpecBackpressure == InitBackpressure /\ [][NextBackpressure]_vars

(***************************************************************************)
(* Kicks: logins, the kick command, Pings and read errors; a client whose  *)
(* connection the server has closed closes its side.  The tokio tasks are  *)
(* scheduled fairly: the arbiter, the writers, and the readers from a      *)
(* reply or an end of stream on go on; what a client sends is up to it.    *)
(***************************************************************************)
InitKick ==
    /\ Start
    /\ whitelist_on = FALSE
    /\ allow_new_accounts = TRUE
    /\ left = MaxKickEvents

ArbiterKick ==
    \/ ArbLoginAttempt
    \/ ArbUserJoined
    \/ ArbUserLeft
    \/ ArbCheckPermissions
    \/ ArbKickUser

NextKick ==
    \/ ArbiterKick
    \/ \E a \in Addrs :
          \/ \E l \in ChatLogins : ReaderLogin(a, l[1], l[2])
          \/ ReaderLoginReply(a)
          \/ \E target \in {Alice, Bob} : ReaderCommandKick(a, target)
          \/ ReaderPermsReply(a)
          \/ ReaderPing(a)
          \/ ReaderErr(a)
          \/ ReaderEof(a)
          \/ WriterStep(a)

FairKick ==
    /\ WF_vars(ArbiterKick)
    /\ \A a \in Addrs :
          /\ WF_vars(WriterStep(a))
          /\ WF_vars(ReaderLoginReply(a))
          /\ WF_vars(ReaderPermsReply(a))
          /\ WF_vars(ReaderEof(a))

SpecKick == InitKick /\ [][NextKick]_vars /\ FairKick

(***************************************************************************)
(* Fetches: the two clients log in, the first sends a text or an image,    *)
(* and both fetch the stored messages with offsets and counts that are not *)
(* negative; the clock.                                                    *)
(***************************************************************************)
InitFetch ==
    /\ Start
    /\ whitelist_on = FALSE
    /\ allow_new_accounts = TRUE
    /\ left = MaxFetchEvents

NextFetch ==
    \/ ArbLoginAttempt
    \/ ArbUserJoined
    \/ ArbWrite
    \/ ArbFetchMessages
    \/ \E m \in Texts \cup {<<Hi[1], ChNul>>} : ReaderMessage(1, m)
    \/ ReaderImageMessage(1, Png1)
    \/ \E a \in Addrs :
          \/ ReaderLogin(a, ChatUser(a), "pw1")
          \/ ReaderLoginReply(a)
          \/ \E f \in {g \in FetchArgs : g[1] >= 0 /\ g[2] >= 0} :
                ReaderFetchMessages(a, f[1], f[2])
          \/ ReaderFetchReply(a)
          \/ ReaderFetchSend(a)
          \/ WriterStep(a)
    \/ Tick

SpecFetch == InitFetch /\ [][NextFetch]_vars

(***************************************************************************)
(* Properties.                                                             *)
(***************************************************************************)
\* the packets sent to the writer of a so far: those written, then those
\* still in its queue
WrittenPkts(a) == [i \in 1..Len(wire[a]) |-> wire[a][i].pkt]
QueuedPkts(a) ==
    LET ws == SelectSeq(wq[a], LAMBDA c : c.t = "Write")
    IN [i \in 1..Len(ws) |-> ws[i].p]
Routed(a) == WrittenPkts(a) \o QueuedPkts(a)

\* C1: in every reachable state no two addresses of connected_users map to
\* the same username.
C1_UsernamesUnique ==
    \A a, b \in Keys(connected_users) :
        connected_users[a].v = connected_users[b].v => a = b

\* Alice is logged in on one connection and her login on the other is
\* answered "Already logged in."
C1_Witness ==
    \E a, b \in Addrs :
        /\ a # b
        /\ connected_users[a] = Some(Alice)
        /\ ~connected_users[b].some
        /\ rpc[b] = "login_wait"
        /\ reply[b] = Some(Err("Already logged in."))

\* C2: in every reachable state every address that is a key of
\* connected_users is a key of txs.
C2_ConnectedHaveTx == Keys(connected_users) \subseteq Keys(txs)

\* one connection logged in and left, and is purged from both maps, while
\* the other is still logged in
C2_Witness ==
    \E a, b \in Addrs :
        /\ a # b
        /\ rpc[a] = "stopped" /\ ruser[a].some
        /\ ~txs[a].some /\ ~connected_users[a].some
        /\ txs[b].some /\ connected_users[b].some

\* C3: on every connection, every broadcast packet (Message, ImageMessage,
\* UserJoined, UserLeft) sent to its writer queue has Write(LoginAck) sent
\* to that queue ahead of it.
C3_LoginAckBeforeBroadcast ==
    \A a \in Addrs :
        \A i \in DOMAIN Routed(a) :
            Routed(a)[i].t \in BroadcastTypes
                => \E j \in 1..(i - 1) : Routed(a)[j].t = "LoginAck"

\* C4: a LoginAttempt is forwarded to the arbiter only from a connection
\* whose reader has a session secret installed, and only such a connection
\* is logged in.
C4_LoginOnlyWhenEncrypted ==
    /\ \A i \in DOMAIN chan :
          chan[i].t = "LoginAttempt" => rsecret[chan[i].addr].some
    /\ \A a \in Keys(connected_users) : rsecret[a].some

\* C5: the arbiter task never terminates abnormally.
C5_ArbiterNeverPanics == apc # "panicked"

\* C6: a reader that has stopped has sent Close to its writer and
\* UserLeft(addr) to the arbiter: once the arbiter has no UserLeft(addr)
\* left to handle, addr is in neither txs nor connected_users.
C6_StoppedReaderIsPurged ==
    \A a \in Addrs :
        (rpc[a] \in {"stopped", "panicked"} /\ ~ArbGone)
            => /\ ~WOpen(a) \/ \E i \in DOMAIN wq[a] : wq[a][i].t = "Close"
               /\ (\A i \in DOMAIN chan :
                      ~(chan[i].t = "UserLeft" /\ chan[i].addr = a))
                    => ~txs[a].some /\ ~connected_users[a].some

\* C7: a secret installed on the reader half or on the writer half of a
\* connection is never changed and never cleared.
C7_SecretNeverChanges ==
    [][\A a \in Addrs :
          /\ rsecret[a].some => rsecret'[a] = rsecret[a]
          /\ wsecret[a].some => wsecret'[a] = wsecret[a]]_vars

\* no handshake of a is under way between the arbiter's reply and the two
\* halves: the arbiter is not about to send SetSecret to a, no SetSecret
\* is in the queue of a, and the reader of a has no accepted secret to
\* pick up
Settled(a) ==
    /\ ~(apc = "confirm_set" /\ acur.v.tx = a)
    /\ \A i \in DOMAIN wq[a] : wq[a][i].t # "SetSecret"
    /\ ~(rpc[a] = "enc_confirm_wait" /\ reply[a].some /\ reply[a].v.ok)

\* C8 as stated: in every reachable state the reader half and the writer
\* half of a connection hold the same secret, or neither holds one.
C8_HalvesAgreeAlways == \A a \in Addrs : rsecret[a] = wsecret[a]

\* C8, amended: whenever the writer of a connection is running and no
\* handshake of the connection is under way, the reader half and the
\* writer half hold the same secret, or neither holds one.
C8_HalvesAgreeWhenSettled ==
    \A a \in Addrs : (WOpen(a) /\ Settled(a)) => rsecret[a] = wsecret[a]

\* a second handshake has replaced the secret k1 by k2 on both halves
C8_Witness ==
    \E a \in Addrs :
        /\ WOpen(a) /\ Settled(a)
        /\ rsecret[a] = Some("k2") /\ wsecret[a] = Some("k2")
        /\ \E i \in DOMAIN wire[a] : wire[a][i].key = Some("k1")

\* the arbiter is inside the EncryptionConfirm handler of a, after its
\* reply, and the reader of a has installed the secret replied
InstalledAhead(a) ==
    /\ apc \in {"confirm_set", "confirm_ack"}
    /\ acur.v.tx = a
    /\ rpc[a] # "enc_confirm_wait"

\* C9: the command right after SetSecret in a writer queue is
\* Write(EncryptionAck); the first frame written with a newly installed
\* secret is EncryptionAck; and no Write is sent to the writer queue
\* between the reader installing the secret and the arbiter having sent
\* SetSecret and Write(EncryptionAck).
C9_AckFollowsSetSecret ==
    /\ [](\A a \in Addrs :
            /\ \A i \in DOMAIN wq[a] :
                  (wq[a][i].t = "SetSecret" /\ i < Len(wq[a]))
                      => wq[a][i + 1] = Write(EncryptionAck)
            /\ \A i \in DOMAIN wire[a] :
                  (wire[a][i].key.some /\ wire[a][i].nonce = 0)
                      => wire[a][i].pkt.t = "EncryptionAck")
    /\ [][\A a \in Addrs :
            (InstalledAhead(a) /\ apc' = apc) => Len(wq'[a]) <= Len(wq[a])]_vars

\* the checks of a login in the order they are made, each with its answer
LoginChecks(username, password) ==
    LET perms == get_user_perms(username)
        row == accounts[username]
    IN << [fails |-> ~verify_username(username),
           reason |-> "Invalid username!"],
          [fails |-> perms.banned, reason |-> "User banned."],
          [fails |-> whitelist_on /\ ~perms.whitelisted,
           reason |-> "User not on whitelist."],
          [fails |-> row.some /\
                     row.v.password # hash_password(password, row.v.salt),
           reason |-> "Incorrect password."],
          [fails |-> row.some /\
                     \E a \in Keys(connected_users) :
                         connected_users[a].v = username,
           reason |-> "Already logged in."],
          [fails |-> ~row.some /\ ~allow_new_accounts,
           reason |-> "Account creation disabled."] >>

\* C10: a LoginAttempt is answered by the first check that fails, in the
\* order invalid username, banned, not whitelisted, wrong password, already
\* connected, account creation disabled; it is accepted and (addr, username)
\* and (addr, writer queue) are registered exactly when no check fails; a
\* rejected attempt leaves txs, connected_users and the accounts unchanged.
C10_LoginDecision ==
    [][(ArbHead("LoginAttempt") /\ chan' = Tail(chan)) =>
         LET p == Head(chan)
             checks == LoginChecks(p.username, p.password)
             failed == {i \in DOMAIN checks : checks[i].fails}
         IN IF failed = {}
            THEN /\ reply'[p.addr].some /\ reply'[p.addr].v.ok
                 /\ connected_users'[p.addr] = Some(p.username)
                 /\ txs'[p.addr] = Some(p.tx)
            ELSE LET first == CHOOSE i \in failed : \A j \in failed : i <= j
                 IN /\ reply'[p.addr] = Some(Err(checks[first].reason))
                    /\ UNCHANGED <<txs, connected_users, accounts>>]_vars

\* a login with a wrong password for a username that is connected is
\* answered "Incorrect password."
C10_Witness ==
    \E a, b \in Addrs :
        /\ a # b
        /\ connected_users[a] = Some(Alice)
        /\ rpc[b] = "login_wait"
        /\ reply[b] = Some(Err("Incorrect password."))

C12_WriteToEveryConnected ==
    [][(ArbHead("Write") /\ chan' = Tail(chan)) =>
          \A a \in Addrs :
              wq'[a] = IF connected_users[a].some
                       THEN Append(wq[a], Write(Head(chan).p))
                       ELSE wq[a]]_vars

\* C14: a full writer queue does not stall the arbiter: whenever Write(pkt)
\* is at the head of the arbiter's queue the arbiter can take it, whatever
\* room the writer queues of the logged-in connections have.
C14_FullQueueDoesNotStall ==
    ArbHead("Write") => ENABLED ArbWrite

\* the broadcast Message and ImageMessage packets among ps: those of a user
\* (the server's own replies carry sender_id 0)
Broadcasts(ps) ==
    SelectSeq(ps, LAMBDA p : p.t \in {"Message", "ImageMessage"}
                             /\ p.sender_id > 0)

\* C12 (as the code has it): the step appends Write(pkt) exactly once to the
\* writer queue of every connection of connected_users whose writer still
\* holds its receiver, and to no other queue; the send to a writer that has
\* taken Close fails and is ignored.
C12_WriteToEveryConnectedOpen ==
    [][(ArbHead("Write") /\ chan' = Tail(chan)) =>
          \A a \in Addrs :
              wq'[a] = IF connected_users[a].some /\ WOpen(a)
                       THEN Append(wq[a], Write(Head(chan).p))
                       ELSE wq[a]]_vars

\* a's message queued for a and for b, both logged in, and for nobody else;
\* written to no store row twice
C12_Witness ==
    \E a, b \in Keys(connected_users) :
        /\ a # b
        /\ Len(messages) = 1
        /\ ruser[a].some /\ ruser[a].v.user_id = messages[1].sender_id
        /\ Len(Broadcasts(QueuedPkts(a))) = 1
        /\ Broadcasts(QueuedPkts(a)) = Broadcasts(QueuedPkts(b))

\* the row of the message store that insert_message or insert_image_message
\* writes for the packet p
RowOf(p) ==
    IF p.t = "Message"
    THEN [sender_id |-> p.sender_id, sender |-> p.sender, content |-> p.text,
          send_time |-> p.time, image_hash |-> None]
    ELSE [sender_id |-> p.sender_id, sender |-> p.sender, content |-> <<>>,
          send_time |-> p.time, image_hash |-> Some(p.image_bytes.sha)]

Rows == {messages[i] : i \in DOMAIN messages}

\* C13: every broadcast Message or ImageMessage packet that is in a writer
\* queue or has been written to a socket has its row in the message store:
\* the arbiter commits the packet before it enqueues it.
C13_StoredBeforeSent ==
    \A a \in Addrs :
        LET ps == Broadcasts(Routed(a))
        IN \A i \in DOMAIN ps : RowOf(ps[i]) \in Rows

\* a text message written to one socket and an image message queued for
\* another, both stored
C13_Witness ==
    \E a, b \in Addrs :
        /\ \E i \in DOMAIN wire[a] :
              wire[a][i].pkt.t = "Message" /\ wire[a][i].pkt.sender_id > 0
        /\ \E i \in DOMAIN QueuedPkts(b) : QueuedPkts(b)[i].t = "ImageMessage"
        /\ Len(messages) = 2

IsPrefix(s, t) == Len(s) <= Len(t) /\ SubSeq(t, 1, Len(s)) = s

\* s can be had from t by leaving elements out
RECURSIVE IsSubseq(_, _)
IsSubseq(s, t) ==
    IF s = <<>> THEN TRUE
    ELSE IF t = <<>> THEN FALSE
    ELSE IF Head(s) = Head(t) THEN IsSubseq(Tail(s), Tail(t))
    ELSE IsSubseq(s, Tail(t))

\* the rows of the broadcast packets sent to the writer of a, in the order
\* they were written and wait to be written
RoutedRows(a) ==
    LET ps == Broadcasts(Routed(a)) IN [i \in DOMAIN ps |-> RowOf(ps[i])]

\* C15: every writer writes the packets in the order their Write commands
\* were enqueued: a step only adds packets behind those written and queued
\* for a connection and moves the oldest queued one to the socket (a writer
\* that takes Close drops what is queued and writes nothing more); so the
\* broadcast messages every recipient gets are in the order the arbiter
\* processed them, which is the order of the message store.
C15_WriterKeepsOrder ==
    /\ [](\A a \in Addrs : IsSubseq(RoutedRows(a), messages))
    /\ [][\A a \in Addrs :
            /\ IsPrefix(WrittenPkts(a), WrittenPkts(a)')
            /\ \/ IsPrefix(Routed(a), Routed(a)')
               \/ wstate'[a] = "closed" /\ wire'[a] = wire[a]]_vars

\* a text message and then an image message written to the socket of a
\* connection behind its LoginAck, in the order of the store
C15_Witness ==
    \E a \in Addrs :
        /\ Len(messages) = 2
        /\ messages[1] # messages[2]
        /\ LET ps == Broadcasts(WrittenPkts(a))
           IN Len(ps) = 2 /\ RowOf(ps[1]) = messages[1]
                          /\ RowOf(ps[2]) = messages[2]
        /\ WrittenPkts(a)[1].t = "LoginAck"

\* C16: once the arbiter has a kick of a connected user to process, the
\* user is eventually removed from connected_users.
C16_KickedUserLeaves ==
    \A a \in Addrs :
        (ArbHead("KickUser") /\ connected_users[a].some
            /\ Head(chan).username = connected_users[a].v)
        ~> ~connected_users[a].some

\* the commands of the arbiter that only an operator may cause
GatedCommands ==
    {"KickUser", "BanUser", "WhitelistUser", "SetWhitelist",
     "SetAllowNewAccounts"}

\* C17: no step of the reader of a logged-in user who is not an operator
\* sends KickUser, BanUser, WhitelistUser, SetWhitelist or
\* SetAllowNewAccounts to the arbiter.
C17_GatedNeedOperator ==
    [][\A a \in Addrs :
          (/\ ruser[a].some
           /\ ~get_user_perms(ruser[a].v.username).operator
           /\ Reader(a)
           /\ Len(chan') = Len(chan) + 1)
          => chan'[Len(chan')].t \notin GatedCommands]_vars

\* the step appends one command to the writer queue of a
Appended(a) == Len(wq'[a]) = Len(wq[a]) + 1 /\ IsPrefix(wq[a], wq'[a])
Newest(a) == wq'[a][Len(wq'[a])]
\* ... and it is a reply of the server: sender_id 0, sender "#SERVER#"
ServerReplyTo(a) ==
    /\ Appended(a)
    /\ Newest(a).t = "Write"
    /\ Newest(a).p.t = "Message"
    /\ Newest(a).p.sender_id = 0
\* ... and it is the list of the users online
UsersOnlineTo(a) ==
    /\ Appended(a)
    /\ Newest(a).t = "Write"
    /\ Newest(a).p.t = "UsersOnline"

\* the steps in which the reader of a answers a Command of its client
ReaderAnswers(a) ==
    \/ \E message \in PlainReplies : ReaderCommandOther(a, message)
    \/ ReaderPermsReply(a)
    \/ \E state \in BOOLEAN : ReaderCommandSetWhitelist(a, state)
    \/ \E state \in BOOLEAN : ReaderCommandSetAllowNewAccounts(a, state)

\* C18: a reply of the server (sender_id 0, "#SERVER#") is enqueued for a
\* connection only by the reader of that connection answering a Command of
\* its own client, and the list of users online only by the arbiter
\* answering the UsersQuery of that connection; the step enqueues nothing
\* for any other connection and writes nothing to the message store.
C18_RepliesOnlyToRequester ==
    [][\A a \in Addrs :
          /\ ServerReplyTo(a) =>
                /\ ReaderAnswers(a)
                /\ Newest(a).p.sender = Phrase("#SERVER#")
                /\ \A b \in Addrs \ {a} : wq'[b] = wq[b]
                /\ messages' = messages
          /\ UsersOnlineTo(a) =>
                /\ ArbHead("UsersQuery") /\ Head(chan).addr = a
                /\ \A b \in Addrs \ {a} : wq'[b] = wq[b]
                /\ messages' = messages]_vars

\* two connections are logged in; one has been sent "Not permitted." and
\* the other nothing of the server's; the store is empty
C18_Witness ==
    \E a, b \in Keys(connected_users) :
        /\ a # b
        /\ \E i \in DOMAIN Routed(a) :
              /\ Routed(a)[i].t = "Message"
              /\ Routed(a)[i].sender_id = 0
              /\ Routed(a)[i].text = Phrase("Not permitted.")
        /\ \A i \in DOMAIN Routed(b) : Routed(b)[i].t # "Message"
        /\ messages = <<>>

\* C19: every row of the message store has sender_id > 0, send_time > 0,
\* and a content that is not empty or an image_hash that is not null.
C19_RowsWellFormed ==
    \A i \in DOMAIN messages :
        /\ messages[i].sender_id > 0
        /\ messages[i].send_time > 0
        /\ messages[i].content # <<>> \/ messages[i].image_hash.some

\* the store holds the row of a text message and the row of an image
\* message
C19_Witness ==
    /\ Len(messages) = 2
    /\ messages[1].content # <<>> /\ ~messages[1].image_hash.some
    /\ messages[2].content = <<>> /\ messages[2].image_hash.some

\* C20: every image_hash of a row of the message store is the key of a row
\* of the image store; no step removes a row of the image store or changes
\* its data.
C20_ImageRowsExist ==
    /\ [](\A i \in DOMAIN messages :
             messages[i].image_hash.some =>
                 /\ messages[i].image_hash.v \in Hashes
                 /\ images[messages[i].image_hash.v].some)
    /\ [][\A h \in Hashes : images[h].some => images'[h] = images[h]]_vars

\* two image messages whose files share the hash are stored: both rows
\* refer to the one image row, which holds the file that came first
C20_Witness ==
    /\ Len(messages) = 2
    /\ messages[1].image_hash.some
    /\ messages[2].image_hash = messages[1].image_hash
    /\ \E a \in Addrs : \E i, j \in DOMAIN Routed(a) :
          /\ i < j
          /\ Routed(a)[i].t = "ImageMessage" /\ Routed(a)[j].t = "ImageMessage"
          /\ Routed(a)[i].image_bytes # Routed(a)[j].image_bytes
          /\ images[messages[1].image_hash.v] =
                Some(Routed(a)[i].image_bytes.img)

\* C21: a step in which the arbiter takes Write(ImageMessage) with image
\* bytes of hash h leaves the row of h in the image store, adds no other
\* image row, leaves the image store as it is when h is already a key of
\* it, and appends one row with image_hash h to the message store; so the
\* same bytes sent twice give one image row and two message rows.
C21_SameImageOneRow ==
    [][(ArbHead("Write") /\ Head(chan).p.t = "ImageMessage"
            /\ chan' = Tail(chan)) =>
          LET p == Head(chan).p
              h == p.image_bytes.sha
          IN /\ images'[h].some
             /\ images[h].some => images' = images
             /\ ~images[h].some => images'[h] = Some(p.image_bytes.img)
             /\ \A g \in Hashes \ {h} : images'[g] = images[g]
             /\ Len(messages') = Len(messages) + 1
             /\ SubSeq(messages', 1, Len(messages)) = messages
             /\ messages'[Len(messages')].image_hash = Some(h)]_vars

\* the same image bytes sent twice: two message rows with the one hash,
\* whose image row holds the bytes
C21_Witness ==
    /\ Len(messages) = 2
    /\ messages[1].image_hash.some
    /\ messages[2].image_hash = messages[1].image_hash
    /\ \E a \in Addrs : \E i, j \in DOMAIN Routed(a) :
          /\ i < j
          /\ Routed(a)[i].t = "ImageMessage" /\ Routed(a)[j].t = "ImageMessage"
          /\ Routed(a)[i].image_bytes = Routed(a)[j].image_bytes
          /\ images[messages[1].image_hash.v] =
                Some(Routed(a)[i].image_bytes.img)

\* C22: a step in which the arbiter takes FetchMessages(o, n) answers it
\* with a list of at most min(n, 64) packets, the rows from the o-th on in
\* an order newest first, and with the empty list when o is at least the
\* number of rows.
C22_FetchAnswered ==
    [][(ArbHead("FetchMessages") /\ (chan' = Tail(chan) \/ apc' # apc)) =>
          LET c == Head(chan)
              n == IF c.n < FetchClamp THEN c.n ELSE FetchClamp
              ms == reply'[c.addr].v
          IN /\ reply'[c.addr].some
             /\ Len(ms) <= (IF n > 0 THEN n ELSE 0)
             /\ c.o >= Len(messages) => ms = <<>>
             /\ (c.o >= 0 /\ n >= 0) =>
                   \E ord \in DescOrders :
                      LET rows == fetch_messages(ord, c.o, n)
                      IN ms = [i \in DOMAIN rows |-> PacketOfRow(rows[i])]]_vars

\* C23: the reader that gets the answer to its FetchMessages enqueues
\* nothing for another connection and keeps the packets to send to its own
\* writer in chronological order, oldest first: in the order in which their
\* rows were stored.
C23_FetchedInStoredOrder ==
    [][\A a \in Addrs :
          (rpc[a] = "fetch_wait" /\ rpc'[a] = "fetch_send") =>
             /\ \A b \in Addrs \ {a} : wq'[b] = wq[b]
             /\ LET ps == rpend'[a].v
                IN IsSubseq([i \in DOMAIN ps |-> RowOf(ps[i])], messages)]_vars

(***************************************************************************)
(* C24: when the arbiter takes BanUser(u, true) for an existing account,   *)
(* every connected session of u is sent Close and the account is banned;   *)
(* while the account is banned every LoginAttempt for u is answered        *)
(* Err("User banned."); a LoginAttempt with the right password for an      *)
(* account that is not banned (whitelist satisfied, u not connected) is    *)
(* accepted.                                                               *)
(***************************************************************************)
C24_BanKicksAndRejects ==
    [][/\ (ArbHead("BanUser") /\ Head(chan).switch
              /\ get_user(Head(chan).username).some
              /\ (chan' = Tail(chan) \/ apc' # apc)) =>
            LET username == Head(chan).username IN
            /\ apc' = "run"
            /\ accounts'[username].v.banned
            /\ \A a \in KickTargets(username) :
                  /\ txs[a].some
                  /\ wq'[txs[a].v] = Append(wq[txs[a].v], Close)
       /\ (ArbHead("LoginAttempt") /\ chan' = Tail(chan)
              /\ get_user(Head(chan).username).some) =>
            LET p == Head(chan)
                row == get_user(p.username).v
            IN /\ row.banned => reply'[p.addr] = Some(Err("User banned."))
               /\ (/\ ~row.banned
                   /\ hash_password(p.password, row.salt) = row.password
                   /\ whitelist_on => row.whitelisted
                   /\ p.username \notin Values(connected_users))
                     => /\ reply'[p.addr].v.ok
                        /\ connected_users'[p.addr] = Some(p.username)]_vars

(***************************************************************************)
(* C25: when the arbiter takes an EncryptionConfirm whose decrypted token  *)
(* differs from the token issued for that handshake, it sends Close to     *)
(* the connection's writer and replies Err, leaves no SetSecret or         *)
(* EncryptionAck to send and leaves the accounts alone; the reader, on     *)
(* that reply, installs no secret and enqueues nothing but Close.          *)
(***************************************************************************)
C25_WrongTokenCloses ==
    [][/\ (/\ ArbHead("EncryptionConfirm")
           /\ Head(chan).enc_t.rsa
           /\ Head(chan).enc_t.v # Head(chan).exp_t
           /\ chan' = Tail(chan) \/ apc' # apc) =>
            LET p == Head(chan) IN
            /\ apc' = "run" /\ acur' = None
            /\ reply'[p.addr] = Some(Err("handshake"))
            /\ wq'[p.tx] = IF WOpen(p.tx) THEN Append(wq[p.tx], Close)
                           ELSE wq[p.tx]
            /\ \A b \in Addrs \ {p.tx} : wq'[b] = wq[b]
            /\ accounts' = accounts
            /\ rsecret' = rsecret /\ wsecret' = wsecret
       /\ \A a \in Addrs :
            (/\ rpc[a] = "enc_confirm_wait" /\ rpc'[a] # rpc[a]
             /\ reply[a].some /\ ~reply[a].v.ok) =>
               /\ rsecret'[a] = rsecret[a]
               /\ rpc'[a] = "read"
               /\ wq'[a] \in {wq[a], Append(wq[a], Close)}
               /\ accounts' = accounts]_vars

\* the arbiter has answered a wrong token: Err in the reply, Close queued
C25_Witness ==
    \E a \in Addrs :
       /\ rpc[a] = "enc_confirm_wait"
       /\ reply[a] = Some(Err("handshake"))
       /\ wq[a] # <<>> /\ wq[a][Len(wq[a])] = Close
       /\ ~rsecret[a].some

(***************************************************************************)
(* accord::connection: frames.  Bytes are 0..255; a key is one of Secrets, *)
(* a nonce is the position in the nonce generator's stream.                *)
(***************************************************************************)
\* u32::to_le_bytes in the place of to_be_bytes
to_le_bytes(len) ==
    <<len % 256, (len \div 256) % 256, (len \div 65536) % 256,
      (len \div 16777216) % 256>>

\* u32::to_be_bytes
to_be_bytes(len) ==
    <<(len \div 16777216) % 256, (len \div 65536) % 256, (len \div 256) % 256,
      len % 256>>

\* read_be_u32 taking the four bytes in the opposite order
read_le_u32(input) ==
    [hi |-> input[4] * 256 + input[3], lo |-> input[2] * 256 + input[1]]

\* read_be_u32 of the first four bytes, as its two 16-bit halves
read_be_u32(input) ==
    [hi |-> input[1] * 256 + input[2], lo |-> input[3] * 256 + input[4]]

\* XChaCha20: the keystream byte at position i under key and nonce
Keystream(key, nonce, i) ==
    ((IF key = "k1" THEN 31 ELSE 101) + nonce * 17 + i * 7) % 256

\* Poly1305: the 16-byte tag of a ciphertext under key and nonce
PolyTag(key, nonce, ct) ==
    [j \in 1..16 |->
        ((IF key = "k1" THEN 3 ELSE 11) * j + nonce * 5 + Len(ct)
             + (IF j <= Len(ct) THEN ct[j] ELSE 0)) % 256]

\* cipher.encrypt(nonce, packet_bytes): ciphertext, then tag
cipher_encrypt(key, nonce, pt) ==
    LET ct == [i \in 1..Len(pt) |-> (pt[i] + Keystream(key, nonce, i)) % 256]
    IN ct \o PolyTag(key, nonce, ct)

\* cipher.decrypt(nonce, packet_bytes): Err when the tag does not verify
cipher_decrypt(key, nonce, bytes) ==
    IF Len(bytes) < 16 THEN [ok |-> FALSE]
    ELSE LET ct == SubSeq(bytes, 1, Len(bytes) - 16)
             tag == SubSeq(bytes, Len(bytes) - 15, Len(bytes))
         IN IF tag # PolyTag(key, nonce, ct) THEN [ok |-> FALSE]
            ELSE [ok |-> TRUE,
                  v |-> [i \in 1..Len(ct) |->
                            (ct[i] + 256 - Keystream(key, nonce, i)) % 256]]

\* encrypt_frame: the length of ciphertext and tag in four bytes, then both
encrypt_frame(packet_bytes, key, nonce) ==
    LET buf == cipher_encrypt(key, nonce, packet_bytes)
    IN to_be_bytes(Len(buf)) \o buf

\* decrypt_frame: Err("Too short"), Err("Not full frame"), a panic of
\* cipher.decrypt(..).unwrap(), or Ok((ret, rest))
decrypt_frame(encrypted_bytes, key, nonce) ==
    IF Len(encrypted_bytes) < 4 THEN [ok |-> FALSE, panic |-> FALSE]
    ELSE LET len32 == read_be_u32(encrypted_bytes)
             after == SubSeq(encrypted_bytes, 5, Len(encrypted_bytes))
             TooLong == \/ len32.hi > Len(after) \div 65536
                        \/ /\ len32.hi = Len(after) \div 65536
                           /\ len32.lo > Len(after) % 65536
             data_len == len32.hi * 65536 + len32.lo
         IN IF TooLong THEN [ok |-> FALSE, panic |-> FALSE]
            ELSE LET r == cipher_decrypt(key, nonce, SubSeq(after, 1, data_len))
                 IN IF ~r.ok THEN [ok |-> FALSE, panic |-> TRUE]
                    ELSE [ok |-> TRUE, panic |-> FALSE, ret |-> r.v,
                          rest |-> SubSeq(after, data_len + 1, Len(after))]

(***************************************************************************)
(* accord::packets: rmp_serde (MessagePack).  A unit variant is its name   *)
(* as a str; any other variant is a map of one entry, name to payload;     *)
(* several fields are an array.                                            *)
(***************************************************************************)
\* the variant names of ServerboundPacket in ASCII
VariantName(t) ==
    CASE t = "Ping" -> <<80, 105, 110, 103>>
      [] t = "Login" -> <<76, 111, 103, 105, 110>>
      [] t = "Message" -> <<77, 101, 115, 115, 97, 103, 101>>
      [] t = "Command" -> <<67, 111, 109, 109, 97, 110, 100>>
      [] t = "FetchMessages" ->
            <<70, 101, 116, 99, 104, 77, 101, 115, 115, 97, 103, 101, 115>>

\* fixstr: 0xa0 + length, then the bytes
fixstr(s) == <<160 + Len(s)>> \o s
\* positive fixint 0..127, negative fixint -32..-1
fixint(v) == IF v >= 0 THEN <<v>> ELSE <<256 + v>>

\* Packet::serialized
serialized(p) ==
    CASE p.t = "Ping" -> fixstr(VariantName(p.t))
      [] p.t \in {"Message", "Command"} ->
            <<129>> \o fixstr(VariantName(p.t)) \o fixstr(p.text)
      [] p.t = "Login" ->
            <<129>> \o fixstr(VariantName(p.t)) \o <<146>>
                \o fixstr(p.username) \o fixstr(p.password)
      [] p.t = "FetchMessages" ->
            <<129>> \o fixstr(VariantName(p.t)) \o <<146>>
                \o fixint(p.offset) \o fixint(p.count)

\* Packet::deserialized: Ok((packet, what is left of buf)) or Err
deserialized(buf) ==
    LET Bad == [ok |-> FALSE]
        Drop(b, n) == SubSeq(b, n + 1, Len(b))
        IsStr(b) == b # <<>> /\ b[1] \in 160..191 /\ Len(b) >= b[1] - 159
        StrOf(b) == SubSeq(b, 2, b[1] - 159)
        AfterStr(b) == Drop(b, b[1] - 159)
        IsInt(b) == b # <<>> /\ (b[1] <= 127 \/ b[1] >= 224)
        IntOf(b) == IF b[1] <= 127 THEN b[1] ELSE b[1] - 256
        Named(b, t) == IsStr(b) /\ StrOf(b) = VariantName(t)
    IN IF buf = <<>> THEN Bad
       ELSE IF buf[1] # 129
       THEN IF Named(buf, "Ping")
            THEN [ok |-> TRUE, p |-> [t |-> "Ping"], rest |-> AfterStr(buf)]
            ELSE Bad
       ELSE LET b1 == Drop(buf, 1) IN
            IF ~IsStr(b1) THEN Bad
            ELSE LET b2 == AfterStr(b1) IN
            IF \E t \in {"Message", "Command"} : Named(b1, t)
            THEN IF ~IsStr(b2) THEN Bad
                 ELSE [ok |-> TRUE,
                       p |-> [t |-> IF Named(b1, "Message") THEN "Message"
                                    ELSE "Command",
                              text |-> StrOf(b2)],
                       rest |-> AfterStr(b2)]
            ELSE IF b2 = <<>> \/ b2[1] # 146 THEN Bad
            ELSE LET b3 == Drop(b2, 1) IN
            IF Named(b1, "Login")
            THEN IF ~IsStr(b3) THEN Bad
                 ELSE IF ~IsStr(AfterStr(b3)) THEN Bad
                 ELSE [ok |-> TRUE,
                       p |-> [t |-> "Login", username |-> StrOf(b3),
                              password |-> StrOf(AfterStr(b3))],
                       rest |-> AfterStr(AfterStr(b3))]
            ELSE IF Named(b1, "FetchMessages")
            THEN IF ~IsInt(b3) THEN Bad
                 ELSE IF ~IsInt(Drop(b3, 1)) THEN Bad
                 ELSE [ok |-> TRUE,
                       p |-> [t |-> "FetchMessages", offset |-> IntOf(b3),
                              count |-> IntOf(Drop(b3, 1))],
                       rest |-> Drop(b3, 2)]
            ELSE Bad

(***************************************************************************)
(* One frame: a client's ConnectionWriter writes a packet with its secret  *)
(* and nonce, a ConnectionReader reads it with its own.                    *)
(***************************************************************************)
\* the bytes of the strings sent: 'a' and 't'
FrameStrs(n) == UNION {[1..m -> {97, 116}] : m \in 0..n}
\* the packets written
FramePackets ==
    {[t |-> "Ping"]}
        \cup {[t |-> v, text |-> s] :
                 v \in {"Message", "Command"}, s \in FrameStrs(MaxTextLen)}
        \cup {[t |-> "Login", username |-> u, password |-> pw] :
                 u \in FrameStrs(1), pw \in FrameStrs(1)}
        \cup {[t |-> "FetchMessages", offset |-> o, count |-> n] :
                 o \in {0 - 1, 0, 5}, n \in {0 - 32, 64, 127}}

InitFrame ==
    /\ chan = <<>> /\ apc = "run" /\ acur = None
    /\ txs = [a \in Addrs |-> None]
    /\ connected_users = [a \in Addrs |-> None]
    /\ accounts = [u \in Usernames |-> None]
    /\ next_user_id = 1 /\ salt_generator = 0 /\ tokens_issued = 0
    /\ whitelist_on = FALSE /\ allow_new_accounts = TRUE
    /\ messages = <<>> /\ images = [h \in Hashes |-> None]
    /\ now = 1 /\ left = 0
    /\ rpc = [a \in Addrs |-> "read"]
    /\ ruser = [a \in Addrs |-> None]
    /\ expect_token = [a \in Addrs |-> 0]
    /\ rpend = [a \in Addrs |-> None]
    /\ reply = [a \in Addrs |-> None]
    /\ wstate = [a \in Addrs |-> "run"]
    /\ wire = [a \in Addrs |-> <<>>]
    /\ \E p \in FramePackets :
          wq = [a \in Addrs |-> IF a = 1 THEN <<Write(p)>> ELSE <<>>]
    /\ \E k \in {None} \cup {Some(s) : s \in Secrets}, n \in 0..1 :
          /\ wsecret = [a \in Addrs |-> IF a = 1 THEN k ELSE None]
          /\ wnonce = [a \in Addrs |-> IF a = 1 /\ k.some THEN n ELSE 0]
    /\ \E k \in {None} \cup {Some(s) : s \in Secrets}, n \in 0..1 :
          /\ rsecret = [a \in Addrs |-> IF a = 1 THEN k ELSE None]
          /\ rnonce = [a \in Addrs |-> IF a = 1 /\ k.some THEN n ELSE 0]

\* ConnectionWriter::write_packet
FrameWrite ==
    /\ WOpen(1)
    /\ wq[1] # <<>> /\ Head(wq[1]).t = "Write"
    /\ LET p == serialized(Head(wq[1]).p) IN
       wire' = [wire EXCEPT ![1] =
                   @ \o (IF wsecret[1].some
                         THEN encrypt_frame(p, wsecret[1].v, wnonce[1])
                         ELSE p)]
    /\ wnonce' = [wnonce EXCEPT ![1] = IF wsecret[1].some THEN @ + 1 ELSE @]
    /\ wq' = [wq EXCEPT ![1] = Tail(@)]
    /\ UNCHANGED <<arbVars, readerVars, wstate, wsecret, envVars>>

\* ConnectionReader::read_packet with the frame in its buffer: the packet
\* and what is left of the buffer, a wait in read_buf for more bytes, or
\* the panic of decrypt_frame
FrameRead ==
    /\ rpc[1] = "read" /\ ~rpend[1].some
    /\ wire[1] # <<>>
    /\ LET d == IF rsecret[1].some
                THEN decrypt_frame(wire[1], rsecret[1].v, rnonce[1])
                ELSE [ok |-> TRUE, panic |-> FALSE, ret |-> wire[1],
                      rest |-> <<>>]
           q == IF d.ok THEN deserialized(d.ret) ELSE [ok |-> FALSE]
       IN IF d.panic
          THEN ReaderPanic(1) /\ UNCHANGED rpend
          ELSE IF q.ok
          THEN /\ rpend' = [rpend EXCEPT ![1] =
                              Some([p |-> q.p,
                                    rest |-> IF rsecret[1].some THEN d.rest
                                             ELSE q.rest])]
               /\ UNCHANGED rpc
          ELSE /\ rpc' = [rpc EXCEPT ![1] = "read_buf"]
               /\ UNCHANGED rpend
    /\ rnonce' = [rnonce EXCEPT ![1] = IF rsecret[1].some THEN @ + 1 ELSE @]
    /\ UNCHANGED <<arbVars, rsecret, ruser, expect_token, reply, writerVars,
                   envVars>>

NextFrame == FrameWrite \/ FrameRead

SpecFrame == InitFrame /\ [][NextFrame]_vars

(***************************************************************************)
(* C26: the frame written for packet p under key k and nonce n is four     *)
(* bytes holding, big-endian, the number N of bytes that follow, N being   *)
(* the length of serialized(p) plus the 16 bytes of the tag; decrypt_frame *)
(* of it under the same k and n leaves nothing and gives bytes that        *)
(* deserialize to p with nothing left; a reader holding the same key and   *)
(* nonce gets from read_packet a packet that serializes and encrypts to    *)
(* the frame it read.                                                      *)
(***************************************************************************)
C26_FrameRoundTrip ==
    [][/\ (wire'[1] # wire[1] /\ wsecret[1].some) =>
            LET p == Head(wq[1]).p
                f == wire'[1]
                d == decrypt_frame(f, wsecret[1].v, wnonce[1])
            IN /\ Len(f) = 4 + Len(serialized(p)) + 16
               /\ f[1] = 0 /\ f[2] = 0 /\ f[3] * 256 + f[4] = Len(f) - 4
               /\ d.ok /\ d.rest = <<>>
               /\ deserialized(d.ret) = [ok |-> TRUE, p |-> p, rest |-> <<>>]
       /\ (/\ rpend'[1] # rpend[1] \/ rpc'[1] # rpc[1]
           /\ rsecret[1].some /\ rsecret[1] = wsecret[1]
           /\ wnonce[1] = rnonce[1] + 1) =>
            /\ rpend'[1].some /\ rpc'[1] = "read"
            /\ rpend'[1].v.rest = <<>>
            /\ encrypt_frame(serialized(rpend'[1].v.p), rsecret[1].v, rnonce[1])
                  = wire[1]]_vars

\* a reader with the writer's key and nonce has read the packet of the frame
C26_Witness ==
    /\ rpend[1].some /\ rpend[1].v.p.t = "Message"
    /\ Len(rpend[1].v.p.text) = MaxTextLen
    /\ rsecret[1].some /\ rsecret[1] = wsecret[1] /\ rnonce[1] = wnonce[1]
    /\ wire[1][4] = Len(wire[1]) - 4

(***************************************************************************)
(* Usernames: one client logs in once under a name made of 'a', of a       *)
(* two-byte letter, of '-' and of a control character.                     *)
(***************************************************************************)
\* n times the character c
Rep(c, n) == [i \in 1..n |-> c]
\* the names tried: one character repeated, and 'a's before one other
NameInputs ==
    LET chars == {[ch |-> "a", alnum |-> TRUE, ctl |-> FALSE, bytes |-> 1],
                  [ch |-> "-", alnum |-> FALSE, ctl |-> FALSE, bytes |-> 1],
                  ChE, ChNul}
    IN {Rep(c, n) : c \in chars, n \in 0..MaxNameLen}
          \cup {Rep(Alice[1], n) \o <<c>> : c \in chars, n \in 1..MaxNameLen - 1}

InitUsername ==
    /\ chan = <<>> /\ apc = "run" /\ acur = None
    /\ txs = [a \in Addrs |-> None]
    /\ connected_users = [a \in Addrs |-> None]
    /\ accounts = [u \in NameInputs |-> None]
    /\ next_user_id = 1 /\ salt_generator = 0 /\ tokens_issued = 0
    /\ whitelist_on = FALSE /\ allow_new_accounts = TRUE
    /\ messages = <<>> /\ images = [h \in Hashes |-> None]
    /\ now = 1 /\ left = 1
    /\ rpc = [a \in Addrs |-> "read"]
    /\ rsecret = [a \in Addrs |-> None]
    /\ rnonce = [a \in Addrs |-> 0]
    /\ ruser = [a \in Addrs |-> None]
    /\ expect_token = [a \in Addrs |-> 0]
    /\ rpend = [a \in Addrs |-> None]
    /\ reply = [a \in Addrs |-> None]
    /\ wq = [a \in Addrs |-> <<>>]
    /\ wstate = [a \in Addrs |-> "run"]
    /\ wsecret = [a \in Addrs |-> None]
    /\ wnonce = [a \in Addrs |-> 0]
    /\ wire = [a \in Addrs |-> <<>>]

NextUsername ==
    \/ \E u \in NameInputs : ReaderLogin(1, u, "pw1")
    \/ ArbLoginAttempt
    \/ ReaderLoginReply(1)
    \/ ArbUserJoined
    \/ WriterStep(1)

SpecUsername == InitUsername /\ [][NextUsername]_vars

(***************************************************************************)
(* C27: handle_login rejects a name as invalid exactly when the name is    *)
(* empty, has more than 18 characters or has a character that is not       *)
(* alphanumeric.                                                           *)
(***************************************************************************)
C27_ValidExactly ==
    [][(ArbHead("LoginAttempt") /\ chan' = Tail(chan) /\ apc' = apc) =>
          LET u == Head(chan).username
              addr == Head(chan).addr
          IN (reply'[addr] = Some(Err("Invalid username!")))
                <=> ~(u # <<>> /\ Len(u) <= 18
                         /\ \A i \in DOMAIN u : u[i].alnum)]_vars

(***************************************************************************)
(* C28: a Message packet of a logged-in client whose text is empty or has  *)
(* a control character changes nothing but the packets still to come: no   *)
(* command for the arbiter, no row, nothing for any writer, the reader and *)
(* the writers as they were; with any other text the reader sends the      *)
(* arbiter one Write of a Message packet carrying that text and the        *)
(* sender's id and name.  No stored text row and no Message packet routed  *)
(* to a client ever carries an empty text or a control character.          *)
(***************************************************************************)
C28_InvalidDroppedValidForwarded ==
    /\ [](/\ \A i \in DOMAIN messages :
                \/ messages[i].image_hash.some
                \/ /\ messages[i].content # <<>>
                   /\ \A j \in DOMAIN messages[i].content :
                         ~messages[i].content[j].ctl
          /\ \A a \in Addrs : \A i \in DOMAIN wq[a] :
                (wq[a][i].t = "Write" /\ wq[a][i].p.t = "Message") =>
                    /\ wq[a][i].p.text # <<>>
                    /\ \A j \in DOMAIN wq[a][i].p.text :
                          ~wq[a][i].p.text[j].ctl)
    /\ [][\A m \in Texts \cup {<<Hi[1], ChNul>>} :
             ReaderMessage(1, m) =>
                IF m = <<>> \/ \E j \in DOMAIN m : m[j].ctl
                THEN /\ UNCHANGED <<arbVars, writerVars, rpc, ruser, rpend,
                                    reply>>
                     /\ rpc[1] = "read" /\ wstate[1] = "run"
                ELSE /\ chan' = Append(chan,
                                  [t |-> "Write",
                                   p |-> [t |-> "Message",
                                          sender_id |-> ruser[1].v.user_id,
                                          sender |-> ruser[1].v.username,
                                          text |-> m, time |-> now]])
                     /\ rpc'[1] = "read"
                     /\ UNCHANGED <<messages, writerVars>>]_vars

\* a logged-in client whose second packet left no trace, the writer running
C28_Witness ==
    /\ ruser[1].some /\ rpc[1] = "read" /\ wstate[1] = "run"
    /\ left = MaxFetchEvents - 2
    /\ chan = <<>> /\ messages = <<>>
    /\ wq = [a \in Addrs |-> <<>>]
    /\ Len(wire[1]) = 2 /\ wire[2] = <<>>
    /\ ~reply[1].some /\ ~rpend[1].some

(***************************************************************************)
(* C29: a packet that the state of its connection does not accept (a       *)
(* packet for logged-in users before the login, a Login after it, an       *)
(* EncryptionConfirm outside the handshake) is dropped: the reader sends   *)
(* nothing to the arbiter or to a writer, stays in its read loop and       *)
(* keeps its user and its secret.                                          *)
(***************************************************************************)
C29_OutOfStateDropped ==
    [][\A a \in Addrs :
          (\/ ReaderNotLoggedIn(a)
           \/ ReaderUnreachable(a)
           \/ ruser[a].some /\ \E un \in Usernames, pw \in Passwords :
                                  ReaderLogin(a, un, pw)) =>
              /\ rpc'[a] = "read"
              /\ chan' = chan /\ wq' = wq
              /\ ruser' = ruser /\ rsecret' = rsecret
              /\ connected_users' = connected_users]_vars

(***************************************************************************)
(* C30: on a rejected login the reader enqueues Write(LoginFailed(reason)) *)
(* and then Close on its writer, and the connection is closed for good:    *)
(* an address whose client has been sent LoginFailed is never in           *)
(* connected_users.                                                        *)
(***************************************************************************)
C30_RejectedLoginCloses ==
    /\ [](\A a \in Addrs :
             (\E i \in DOMAIN Routed(a) : Routed(a)[i].t = "LoginFailed")
                => ~connected_users[a].some)
    /\ [][\A a \in Addrs :
             (ReaderLoginReply(a) /\ ~reply[a].v.ok) =>
                 /\ rpc'[a] = "read"
                 /\ WOpen(a) =>
                      wq'[a] = wq[a] \o <<Write(LoginFailed(reply[a].v.reason)),
                                          Close>>]_vars

(***************************************************************************)
(* A stream: a ConnectionWriter writes packets one after the other, the    *)
(* socket hands the bytes to the ConnectionReader in pieces of any size.   *)
(* In this specification wire[1] is all the bytes written and rpend[1]     *)
(* holds the reader's side: the bytes read_buf has delivered so far        *)
(* (nread), self.buffer, and the packets read_packet has returned.         *)
(***************************************************************************)
\* the packets of a stream: 5, 11 and 18 bytes serialized
StreamPackets ==
    {[t |-> "Ping"], [t |-> "Message", text |-> <<97>>],
     [t |-> "FetchMessages", offset |-> 0, count |-> 64]}
\* the sequences of packets sent
StreamSeqs == UNION {[1..n -> StreamPackets] : n \in 1..MaxStreamPackets}

InitStream ==
    /\ chan = <<>> /\ apc = "run" /\ acur = None
    /\ txs = [a \in Addrs |-> None]
    /\ connected_users = [a \in Addrs |-> None]
    /\ accounts = [u \in Usernames |-> None]
    /\ next_user_id = 1 /\ salt_generator = 0 /\ tokens_issued = 0
    /\ whitelist_on = FALSE /\ allow_new_accounts = TRUE
    /\ messages = <<>> /\ images = [h \in Hashes |-> None]
    /\ now = 1 /\ left = 0
    /\ rpc = [a \in Addrs |-> "read"]
    /\ ruser = [a \in Addrs |-> None]
    /\ expect_token = [a \in Addrs |-> 0]
    /\ rpend = [a \in Addrs |->
                  IF a = 1
                  THEN Some([buffer |-> <<>>, packets |-> <<>>, nread |-> 0])
                  ELSE None]
    /\ reply = [a \in Addrs |-> None]
    /\ wstate = [a \in Addrs |-> "run"]
    /\ wire = [a \in Addrs |-> <<>>]
    /\ \E s \in StreamSeqs :
          wq = [a \in Addrs |->
                  IF a = 1 THEN [i \in DOMAIN s |-> Write(s[i])] ELSE <<>>]
    /\ \E k \in {None, Some("k1")} :
          /\ wsecret = [a \in Addrs |-> IF a = 1 THEN k ELSE None]
          /\ rsecret = [a \in Addrs |-> IF a = 1 THEN k ELSE None]
    /\ wnonce = [a \in Addrs |-> 0]
    /\ rnonce = [a \in Addrs |-> 0]

\* stream.read_buf(&mut self.buffer): some of the bytes written arrive
StreamRecv ==
    /\ rpc[1] = "read_buf"
    /\ \E k \in 1..(Len(wire[1]) - rpend[1].v.nread) :
          rpend' = [rpend EXCEPT ![1] =
                      Some([rpend[1].v EXCEPT
                              !.buffer = @ \o SubSeq(wire[1],
                                                     rpend[1].v.nread + 1,
                                                     rpend[1].v.nread + k),
                              !.nread = @ + k])]
    /\ rpc' = [rpc EXCEPT ![1] = "decode"]
    /\ UNCHANGED <<arbVars, rsecret, rnonce, ruser, expect_token, reply,
                   writerVars, envVars>>

\* a variant of NonceDrawn: a nonce drawn at every turn of the loop
NonceDrawn_EachTurn(pc) == TRUE

\* read_packet draws its nonce before the loop: once per call, however many
\* times the loop goes round
NonceDrawn(pc) == pc = "read"

\* read_packet: the nonce drawn when the call starts, then one turn of its
\* loop: the packet is returned and the buffer keeps what follows it, or
\* the loop goes on to read_buf
StreamRead ==
    /\ rpc[1] \in {"read", "decode"}
    /\ LET st == rpend[1].v
           nonce == IF NonceDrawn(rpc[1]) THEN rnonce[1] ELSE rnonce[1] - 1
           d == IF rsecret[1].some
                THEN decrypt_frame(st.buffer, rsecret[1].v, nonce)
                ELSE [ok |-> TRUE, panic |-> FALSE, ret |-> st.buffer,
                      rest |-> <<>>]
           q == IF d.ok THEN deserialized(d.ret) ELSE [ok |-> FALSE]
           kept == IF ~d.ok THEN st.buffer
                   ELSE IF rsecret[1].some THEN d.rest
                   ELSE IF q.ok THEN q.rest ELSE st.buffer
       IN /\ rnonce' = [rnonce EXCEPT ![1] =
                           IF NonceDrawn(rpc[1]) /\ rsecret[1].some
                           THEN @ + 1 ELSE @]
          /\ IF d.panic
             THEN ReaderPanic(1) /\ UNCHANGED rpend
             ELSE /\ rpend' = [rpend EXCEPT ![1] =
                                 Some([st EXCEPT
                                         !.buffer = kept,
                                         !.packets = IF q.ok
                                                     THEN Append(@, q.p)
                                                     ELSE @])]
                  /\ rpc' = [rpc EXCEPT ![1] =
                               IF q.ok THEN "read" ELSE "read_buf"]
    /\ UNCHANGED <<arbVars, rsecret, ruser, expect_token, reply, writerVars,
                   envVars>>

NextStream == FrameWrite \/ StreamRecv \/ StreamRead

SpecStream == InitStream /\ [][NextStream]_vars

\* the bytes write_packet puts on the stream for the packets of s, the
\* first of them under nonce n
RECURSIVE StreamBytes(_, _, _)
StreamBytes(s, key, n) ==
    IF s = <<>> THEN <<>>
    ELSE (IF key.some THEN encrypt_frame(serialized(Head(s)), key.v, n)
          ELSE serialized(Head(s)))
             \o StreamBytes(Tail(s), key, n + 1)

\* what read_packet has returned and kept, for the packets s sent
StreamInOrder(s) ==
    LET st == rpend[1].v
        got == st.packets
    IN /\ rpc[1] # "panicked"
       /\ IsPrefix(got, s)
       /\ StreamBytes(got, rsecret[1], 0) \o st.buffer
             = SubSeq(wire[1], 1, st.nread)
       /\ (rpc[1] = "read_buf" /\ Len(got) < Len(s)) =>
             ~IsPrefix(StreamBytes(<<s[Len(got) + 1]>>, rsecret[1], Len(got)),
                       st.buffer)
       /\ (rpc[1] = "read_buf" /\ Len(got) = Len(s)) => st.buffer = <<>>

(***************************************************************************)
(* C31: however the bytes of the stream are cut into reads, the packets    *)
(* read_packet returns are, in order, the packets sent: the bytes of the   *)
(* returned packets followed by the buffer are exactly the bytes read so   *)
(* far, a packet is returned only when all its bytes (in ciphertext mode   *)
(* the 4-byte length N and the N bytes) are in the buffer, and read_packet *)
(* waits for more bytes only while the next packet is incomplete.          *)
(***************************************************************************)
C31_SameSequenceForAnySplit ==
    \A s \in StreamSeqs :
        (wq[1] = [i \in DOMAIN s |-> Write(s[i])]) => [](StreamInOrder(s))

\* ciphertext mode: a packet returned, the bytes after its frame kept
C31_Witness ==
    /\ rsecret[1].some
    /\ Len(rpend[1].v.packets) = 1
    /\ rpend[1].v.buffer # <<>>
    /\ rpc[1] = "read"


\* the number of frames in a run of whole frames: each is its four length
\* bytes and as many bytes as they say
RECURSIVE FrameCount(_)
FrameCount(b) ==
    IF Len(b) < 4 THEN 0
    ELSE 1 + FrameCount(SubSeq(b, 5 + b[3] * 256 + b[4], Len(b)))

\* C32: on an encrypted connection the writer has drawn as many nonces as it
\* has written frames, and the reader as many as it has returned packets,
\* plus the one drawn for the call in progress: the frame with index i is
\* sealed and opened with the nonce of index i, however the bytes arrive, and
\* opening never fails
C32_NonceOncePerFrame ==
    rsecret[1].some =>
       /\ wnonce[1] = FrameCount(wire[1])
       /\ rpc[1] # "panicked"
       /\ rnonce[1] = Len(rpend[1].v.packets)
                        + (IF rpc[1] = "read" THEN 0 ELSE 1)
       /\ rnonce[1] <= wnonce[1] + 1

\* two frames written and both returned, each end two nonces on
C32_Witness ==
    /\ rsecret[1].some
    /\ Len(rpend[1].v.packets) = 2
    /\ rnonce[1] = 2 /\ wnonce[1] = 2
    /\ rpend[1].v.nread = Len(wire[1])


(***************************************************************************)
(* C33: Close is terminal for a writer.  Once the writer of a connection   *)
(* has taken Close nothing more is written on that connection, and a Write *)
(* sent to it afterwards fails silently: with the arbiter running, no step *)
(* taken while the writer is closed ends the reader of that connection,    *)
(* and no broadcast of the arbiter ends the arbiter.                       *)
(***************************************************************************)
C33_CloseIsTerminal ==
    [][\A a \in Addrs :
          (wstate[a] = "closed" /\ apc = "run") =>
              /\ wire'[a] = wire[a]
              /\ wstate'[a] = "closed"
              /\ (chan # <<>> /\ Head(chan).t \in {"Write", "UserJoined",
                                                    "UserLeft"})
                    => apc' = "run"
              /\ rpc[a] # "panicked" => rpc'[a] # "panicked"]_vars


(***************************************************************************)
(* Leaving: two clients log in and their connections end, in any order and *)
(* at any moment, before or after the login.                               *)
(***************************************************************************)
InitLeave ==
    /\ Start
    /\ whitelist_on = FALSE
    /\ allow_new_accounts = TRUE
    /\ left = MaxLeaveEvents

NextLeave ==
    \/ ArbLoginAttempt
    \/ ArbUserJoined
    \/ ArbUserLeft
    \/ \E a \in Addrs :
          \/ ReaderLogin(a, ChatUser(a), "pw1")
          \/ ReaderLoginReply(a)
          \/ ReaderErr(a)
          \/ WriterStep(a)

SpecLeave == InitLeave /\ [][NextLeave]_vars

(***************************************************************************)
(* C34: the step of the arbiter for UserLeft(addr) takes addr out of txs   *)
(* and of connected_users and leaves the other entries alone; if addr was  *)
(* logged in, Write(UserLeft(username)) is appended to the writer queue of *)
(* every other logged-in connection and to no other queue; if addr was not *)
(* logged in, no queue and neither map changes.                            *)
(***************************************************************************)
C34_UserLeftStep ==
    [][(ArbHead("UserLeft") /\ chan' = Tail(chan)) =>
          LET addr == Head(chan).addr IN
          /\ txs' = [txs EXCEPT ![addr] = None]
          /\ connected_users' = [connected_users EXCEPT ![addr] = None]
          /\ IF connected_users[addr].some
             THEN \A b \in Addrs :
                     wq'[b] = IF b # addr /\ connected_users[b].some
                              THEN Append(wq[b],
                                     Write(UserLeftPkt(connected_users[addr].v)))
                              ELSE wq[b]
             ELSE /\ wq' = wq
                  /\ txs' = txs
                  /\ connected_users' = connected_users]_vars

\* C34 (as the code has it): the same, the packet appended to the queue of
\* every other logged-in connection whose writer still holds its receiver;
\* the send to a writer that has taken Close fails and is ignored.
C34_UserLeftStepOpen ==
    [][(ArbHead("UserLeft") /\ chan' = Tail(chan)) =>
          LET addr == Head(chan).addr IN
          /\ txs' = [txs EXCEPT ![addr] = None]
          /\ connected_users' = [connected_users EXCEPT ![addr] = None]
          /\ IF connected_users[addr].some
             THEN \A b \in Addrs :
                     wq'[b] = IF b # addr /\ connected_users[b].some
                                 /\ WOpen(b)
                              THEN Append(wq[b],
                                     Write(UserLeftPkt(connected_users[addr].v)))
                              ELSE wq[b]
             ELSE /\ wq' = wq
                  /\ txs' = txs
                  /\ connected_users' = connected_users]_vars


\* a has left after its login, b is still logged in and has been sent
\* UserLeft(a's name); a has been sent no UserLeft at all
C34_Witness ==
    \E a, b \in Addrs :
        /\ a # b
        /\ ~txs[a].some /\ ~connected_users[a].some
        /\ connected_users[b].some
        /\ \E i \in DOMAIN Routed(b) : Routed(b)[i] = UserLeftPkt(ChatUser(a))
        /\ \A i \in DOMAIN Routed(a) : Routed(a)[i].t # "UserLeft"


(***************************************************************************)
(* C35: an account appears only in the arbiter's step for a LoginAttempt   *)
(* whose username is valid and has no account, taken while                 *)
(* allow_new_accounts is true; such an attempt taken while it is false is  *)
(* rejected and leaves the accounts as they are; no step removes an        *)
(* account.                                                                *)
(***************************************************************************)
C35_AccountsOnlyByAllowedLogin ==
    [][/\ \A u \in Usernames : accounts[u].some => accounts'[u].some
       /\ \A u \in Usernames :
             (~accounts[u].some /\ accounts'[u].some) =>
                 /\ ArbHead("LoginAttempt")
                 /\ Head(chan).username = u
                 /\ verify_username(u)
                 /\ allow_new_accounts
       /\ (/\ ArbHead("LoginAttempt") /\ chan' = Tail(chan)
           /\ ~allow_new_accounts
           /\ verify_username(Head(chan).username)
           /\ ~accounts[Head(chan).username].some) =>
                 /\ accounts' = accounts
                 /\ reply'[Head(chan).addr].some
                 /\ ~reply'[Head(chan).addr].v.ok]_vars

\* an account made by a login while new accounts are allowed, its user
\* logged in
C35_Witness ==
    /\ allow_new_accounts
    /\ \E a \in Addrs :
          /\ connected_users[a].some
          /\ accounts[connected_users[a].v].some
          /\ accounts[connected_users[a].v].v.user_id = 1


\* the broadcast packets written and queued for connection a, in order
BRouted(a) == SelectSeq(Routed(a), LAMBDA p : p.t \in BroadcastTypes)

(***************************************************************************)
(* C36: the broadcasts are in one order, that of the arbiter's steps, for  *)
(* every recipient.  The broadcast packets routed to a connection change   *)
(* only at their end: a step adds at most one packet behind them (or the   *)
(* writer takes Close and the queued ones are dropped), and the packets    *)
(* one step adds for two connections are the same packet.  So two          *)
(* broadcasts that reach two recipients reach both in the order of the     *)
(* steps that sent them.                                                   *)
(***************************************************************************)
C36_OneBroadcastOrder ==
    [][wq' # wq \/ wire' # wire =>
          LET old == [a \in Addrs |-> BRouted(a)]
              new == [a \in Addrs |-> BRouted(a)']
          IN \A a \in Addrs :
                /\ \/ IsPrefix(old[a], new[a]) /\ Len(new[a]) <= Len(old[a]) + 1
                   \/ IsPrefix(new[a], old[a]) /\ wstate'[a] = "closed"
                /\ \A b \in Addrs :
                      (Len(new[a]) = Len(old[a]) + 1
                          /\ Len(new[b]) = Len(old[b]) + 1)
                         => new[a][Len(new[a])] = new[b][Len(new[b])]]_vars

\* both users logged in and a message sent: connection a has UserJoined of
\* the first, UserJoined of the second and the message, connection b the
\* last two, in that order
C36_Witness ==
    \E a, b \in Keys(connected_users) :
        /\ a # b
        /\ Len(BRouted(a)) = 3
        /\ BRouted(b) = Tail(BRouted(a))
        /\ BRouted(a)[2].t = "UserJoined"
        /\ BRouted(a)[3].t \in {"Message", "ImageMessage"}


\* id and name are those of an account, and not the server's
OfAccount(id, name) ==
    /\ id > 0
    /\ name # Phrase("#SERVER#")
    /\ name \in Usernames
    /\ accounts[name].some
    /\ accounts[name].v.user_id = id

(***************************************************************************)
(* C37: every Message and ImageMessage persisted or handed to the arbiter  *)
(* for broadcast carries the user_id and the username under which its      *)
(* connection logged in.  The reader of a connection holds the id and the  *)
(* name of the account the arbiter accepted for that address; the packet   *)
(* it sends to the arbiter for a Message or ImageMessage of its client     *)
(* carries them; what waits in the arbiter's queue and what is in the      *)
(* message store carries the id and name of one account, never sender_id 0 *)
(* or "#SERVER#".                                                          *)
(***************************************************************************)
C37_SenderIsLoggedInUser ==
    /\ [](\A a \in Addrs :
             ruser[a].some =>
                /\ OfAccount(ruser[a].v.user_id, ruser[a].v.username)
                /\ connected_users[a].some
                      => connected_users[a].v = ruser[a].v.username)
    /\ [](\A i \in DOMAIN chan :
             chan[i].t = "Write" =>
                OfAccount(chan[i].p.sender_id, chan[i].p.sender))
    /\ [](\A i \in DOMAIN messages :
             OfAccount(messages[i].sender_id, messages[i].sender))
    /\ [][\A a \in Addrs :
             (/\ \/ \E m \in Texts : ReaderMessage(a, m)
                 \/ \E im \in ChatImages : ReaderImageMessage(a, im)
              /\ chan' # chan) =>
                 LET p == chan'[Len(chan')].p IN
                 /\ chan' = Append(chan, Write(p))
                 /\ ruser[a].some
                 /\ p.sender_id = ruser[a].v.user_id
                 /\ p.sender = ruser[a].v.username]_vars

\* two users are logged in and one has sent a message: it is in the store
\* and routed to the other under the id and name of its sender's login
C37_Witness ==
    \E a, b \in Addrs :
        /\ a # b
        /\ ruser[a].some /\ ruser[b].some
        /\ Len(messages) = 1
        /\ messages[1].sender_id = ruser[b].v.user_id
        /\ messages[1].sender = ruser[b].v.username
        /\ messages[1].sender # ruser[a].v.username
        /\ \E i \in DOMAIN Routed(a) :
              /\ Routed(a)[i].t \in {"Message", "ImageMessage"}
              /\ Routed(a)[i].sender_id = ruser[b].v.user_id
              /\ Routed(a)[i].sender = ruser[b].v.username


(***************************************************************************)
(* The handshake with the tasks scheduled fairly: the arbiter and the      *)
(* writers go on whenever they have a command to take, the readers from a  *)
(* reply on; what a client sends is up to it.                              *)
(***************************************************************************)
FairHandshake ==
    /\ WF_vars(ArbEncryptionRequest \/ ArbEncryptionConfirm
                 \/ ArbConfirmSetSecret \/ ArbConfirmAck \/ ArbUserLeft)
    /\ \A a \in Addrs :
          /\ WF_vars(WriterStep(a))
          /\ WF_vars(ReaderConfirmReply(a))

SpecHandshakeFair == InitHandshake /\ [][NextHandshake]_vars /\ FairHandshake

\* every Sender of the queue of writer a is gone: its reader has ended, and
\* the arbiter has ended or holds the queue neither in txs nor in a command
\* it has still to take
SendersGone(a) ==
    /\ rpc[a] \in {"stopped", "panicked"}
    /\ \/ apc = "panicked"
       \/ /\ \A b \in Keys(txs) : txs[b].v # a
          /\ \A i \in DOMAIN chan :
                "tx" \in DOMAIN chan[i] => chan[i].tx # a

(***************************************************************************)
(* C38: every writer task exits once its connection is over: from the      *)
(* moment every sender of its queue is gone the writer eventually leaves   *)
(* its loop.                                                               *)
(***************************************************************************)
C38_WriterExits ==
    \A a \in Addrs : SendersGone(a) ~> wstate[a] = "closed"


(***************************************************************************)
(* The chat with the tasks scheduled fairly: the arbiter and the writers   *)
(* go on whenever they have a command to take, the readers from a reply    *)
(* on; what a client sends is up to it.                                    *)
(***************************************************************************)
FairChat ==
    /\ WF_vars(ArbLoginAttempt \/ ArbUserJoined \/ ArbUserLeft \/ ArbWrite
                 \/ ArbUsersQuery \/ ArbCheckPermissions \/ ArbKickUser)
    /\ \A a \in Addrs :
          /\ WF_vars(WriterStep(a))
          /\ WF_vars(ReaderLoginReply(a))
          /\ WF_vars(ReaderPermsReply(a))

SpecChatFair == InitChat /\ [][NextChat]_vars /\ FairChat

\* connection a has been kicked and nothing of it is on its way: the user is
\* still in connected_users and the reader still reads, Close is queued
\* for the writer or taken by it, and no Write of the user waits in the
\* arbiter's queue
KickedIdle(a) ==
    /\ connected_users[a].some
    /\ rpc[a] = "read"
    /\ \/ wstate[a] = "closed"
       \/ \E i \in DOMAIN wq[a] : wq[a][i].t = "Close"
    /\ \A i \in DOMAIN chan :
          chan[i].t = "Write" => chan[i].p.sender # connected_users[a].v

\* the rows of the message store under the name connection a is logged in
\* with
RowsBy(a) ==
    SelectSeq(messages, LAMBDA r : /\ connected_users[a].some
                                   /\ r.sender = connected_users[a].v)

(***************************************************************************)
(* C39: after the arbiter has processed the kick of a connected user, no   *)
(* message sent afterwards on the kicked connection is persisted: from a   *)
(* state in which connection a is kicked, with no message of it on its way *)
(* and n rows in the store, the store never holds more than n rows of that *)
(* user while the connection is in connected_users.                        *)
(***************************************************************************)
C39_KickedSendsNothing ==
    \A a \in Addrs : \A n \in 0..MaxChatEvents :
        []((KickedIdle(a) /\ Len(RowsBy(a)) = n)
              => [](connected_users[a].some => Len(RowsBy(a)) <= n))


\* the arbiter takes a LoginAttempt for a username without account while the
\* whitelist is on
WhitelistedOutLogin ==
    /\ ArbHead("LoginAttempt") /\ chan' = Tail(chan)
    /\ whitelist_on
    /\ ~get_user(Head(chan).username).some

\* the arbiter takes WhitelistUser for a username without account
WhitelistOfUnknown ==
    /\ ArbHead("WhitelistUser") /\ chan' = Tail(chan)
    /\ ~get_user(Head(chan).username).some

(***************************************************************************)
(* C40: while whitelist_on is true a LoginAttempt for a username without   *)
(* account is answered "User not on whitelist." and makes no account,      *)
(* whatever allow_new_accounts is; WhitelistUser for a username without    *)
(* account changes nothing but the arbiter's queue.                        *)
(***************************************************************************)
C40_UnknownNeverPassesWhitelist ==
    [][/\ WhitelistedOutLogin =>
             /\ reply'[Head(chan).addr] = Some(Err("User not on whitelist."))
             /\ accounts' = accounts
             /\ connected_users' = connected_users
       /\ WhitelistOfUnknown =>
             UNCHANGED <<accounts, whitelist_on, allow_new_accounts,
                         connected_users, txs, wq, reply>>]_vars

\* C40 (as the code has it): the same for a username that passes
\* verify_username; one that does not is answered "Invalid username!", the
\* first test of handle_login, and makes no account either.
C40_UnknownValidNeverPassesWhitelist ==
    [][/\ WhitelistedOutLogin =>
             /\ reply'[Head(chan).addr] =
                   Some(Err(IF verify_username(Head(chan).username)
                            THEN "User not on whitelist."
                            ELSE "Invalid username!"))
             /\ accounts' = accounts
             /\ connected_users' = connected_users
       /\ WhitelistOfUnknown =>
             UNCHANGED <<accounts, whitelist_on, allow_new_accounts,
                         connected_users, txs, wq, reply>>]_vars

\* the whitelist on and new accounts allowed: a valid username without
\* account has been answered "User not on whitelist.", there is no account
C40_Witness ==
    /\ whitelist_on /\ allow_new_accounts
    /\ \A u \in Usernames : ~accounts[u].some
    /\ \E a \in Addrs : reply[a] = Some(Err("User not on whitelist."))

====
